---- MODULE Spec2Model ----
(***************************************************************************)
(* Verification model of the weekly poll bot.                              *)
(*                                                                         *)
(*   events.py       tracked_events / event_rsvps, the three lifecycle     *)
(*                   listeners, schedule_reminders_for_event and its       *)
(*                   reminder_coro (specification SpecEvents and its       *)
(*                   restrictions)                                         *)
(*   bot.py          options / votes / availability, temp_selections, the  *)
(*                   button callbacks, compute_matches_for_poll_from_db    *)
(*                   and the embed generators                              *)
(*   quarter_poll.py quarter_options / quarter_votes /                     *)
(*                   quarter_availability, build_quarter_embed             *)
(*                                                                         *)
(* Every coroutine is cut at its awaits: one action is the code that runs  *)
(* between two suspension points together with the effect of the awaited   *)
(* network call.  SQLite NULL is modelled by 0 (row ids start at 1).       *)
(***************************************************************************)
EXTENDS Integers, FiniteSets, Sequences, Bags, TLC

\* ------------------------------------------------------------------------
\* Bounds of the model
\* ------------------------------------------------------------------------
MaxTime == 1
MaxMsgs == 3
MaxTasks == 3

EventIds == {"e1"}
\* ids of events created with CreateEventModal ("<timestamp>-<user id>")
CreatedIds == {"c1"}
RsvpUsers == {"u1"}
\* start_time of a notification, relative to the clock: already started,
\* inside the 2h window, inside the 24h window, more than 24h ahead
StartDeltas == {0, 1, 3, 25}

MaxOptions == 2
MaxQuarterOptions == 2

\* user ids; Clickers are the users who press buttons in the handler-driven
\* specifications
Users == {"u1", "u2", "u3"}
Clickers == {"u1", "u2"}
\* the user who walks through the quarterly availability view
DayPickers == {"u1"}
\* posted polls of bot.py: post_poll_to_channel / post_quarterly_poll_to_channel
WeeklyPolls == {"w1"}
QuarterlyPolls == {"q1_quarterly"}
PollIds == WeeklyPolls \cup QuarterlyPolls
\* "<day>-<hour>" slots of the weekly grid, day labels of the quarterly grid
WeeklySlots == {"Fr-19", "Sa-20"}
QuarterlyDays == {"Mo. 05.01.", "Di. 06.01."}
\* what a user types into the idea field: a text is a sequence of characters
RawIdeas == {<<" ">>, <<"a">>, <<"a", " ">>, <<"b">>}
\* polls of quarter_poll.py (rows of quarter_polls that were posted)
QuarterPollIds == {1}
\* tokens a user types into the CSV field of QuarterPickDaysModal
DayTokens == {"2026-01-05", "2026-01-05T10:00", "2026-01-12", "12.01.2026"}

\* ------------------------------------------------------------------------
\* Program constants
\* ------------------------------------------------------------------------
Null == 0
EventsChannelId == 10
Hours24 == 24
Hours2 == 2
Hours1 == 1
CreatedEventsChannelId == 11

VARIABLES
    \* ---- events.py ----
    tracked_events,   \* discord_event_id -> [start, ch, msg] (rows of tracked_events)
    event_rsvps,      \* set of <<discord_event_id, user_id>> with status "interested"
    live,             \* messages that exist in the events channel: [id, ev]
    nextMsg,          \* id the platform gives to the next message sent
    jobs,             \* scheduler: <<hours_before, discord_event_id>> -> run_date
    tasks,            \* bag of suspended coroutines on the event loop
    now,              \* wall clock, in hours
    chanUp            \* whether bot.get_channel finds the events channel

VARIABLES
    \* ---- bot.py ----
    options,          \* rows of options: [id, poll, text, author]
    nextOptionId,     \* AUTOINCREMENT of options.id
    votes,            \* rows of votes: <<poll_id, option_id, user_id>>
    availability,     \* rows of availability: <<poll_id, user_id, slot>>
    temp_selections   \* <<poll_id, user_id>> -> set of slots, present keys only

VARIABLES
    \* ---- quarter_poll.py ----
    quarter_options,        \* rows of quarter_options: [id, poll, title, author]
    nextQuarterOptionId,    \* AUTOINCREMENT of quarter_options.id
    quarter_votes,          \* rows of quarter_votes: <<poll_id, option_id, user_id>>
    quarter_availability    \* rows of quarter_availability: <<poll_id, user_id, day>>

VARIABLES
    \* ---- bot.py, created events ----
    created_events,         \* id -> [start, ch, msg] (rows of created_events)
    created_event_rsvps     \* rows of created_event_rsvps: <<event_id, user_id>>

VARIABLES
    \* ---- bot.py, digests ----
    daily_summaries,            \* channel -> message_id (rows of daily_summaries)
    weekly_summaries,           \* channel -> message_id (rows of weekly_summaries)
    last_posted_matches,        \* poll_id -> matches of the last daily digest
    last_posted_weekly_matches  \* poll_id -> matches of the last weekly digest

VARIABLES
    \* ---- quarter_poll.py, daily check ----
    quarter_polls,          \* rows of quarter_polls: [id, quarter_start, msg]
    nextQuarterPollId,      \* AUTOINCREMENT of quarter_polls.id
    today                   \* the date, as a day number

VARIABLES
    \* ---- bot.py, the scheduler's recurring jobs ----
    cron_jobs               \* the job store: records [id, trigger, next]

VARIABLES
    \* ---- bot.py, the poll messages of the channel ----
    poll_messages           \* the history, oldest first: records [poll, shows, title]

VARIABLES
    results           \* last value returned by a matching / rendering function

evVars == <<tracked_events, event_rsvps, live, nextMsg, jobs, tasks, now, chanUp>>

pollVars == <<options, nextOptionId, votes, availability, temp_selections>>

quarterVars == <<quarter_options, nextQuarterOptionId, quarter_votes, quarter_availability>>

createdVars == <<created_events, created_event_rsvps>>

digestVars == <<daily_summaries, weekly_summaries, last_posted_matches, last_posted_weekly_matches>>

checkVars == <<quarter_polls, nextQuarterPollId, today>>

schedVars == <<cron_jobs>>

msgVars == <<poll_messages>>

vars == <<evVars, pollVars, quarterVars, createdVars, digestVars, checkVars, schedVars, msgVars, results>>

\* ------------------------------------------------------------------------
\* events.py : helpers
\* ------------------------------------------------------------------------
LiveIds == {m.id : m \in live}

LiveFor(e) == {m \in live : m.ev = e}

Task(kind, e, hours, start, msg, pc) ==
    [kind |-> kind, ev |-> e, hours |-> hours, start |-> start, msg |-> msg, pc |-> pc]

Spawn(bag, t) == bag (+) SetToBag({t})

Retire(bag, t) == bag (-) SetToBag({t})

Running(t) == BagIn(t, tasks)

NumTasks == BagCardinality(tasks)

\* bot.get_channel(channel_id)
get_channel(ch_id) == ch_id \in {EventsChannelId, CreatedEventsChannelId} /\ chanUp

\* UPDATE tracked_events SET posted_channel_id = ?, posted_message_id = ? WHERE discord_event_id = ?
SetPosted(rows, e, ch, m) ==
    IF e \in DOMAIN rows
    THEN [rows EXCEPT ![e] = [@ EXCEPT !.ch = ch, !.msg = m]]
    ELSE rows

\* DELETE FROM ... WHERE discord_event_id = ?
DeleteRow(rows, e) == [x \in DOMAIN rows \ {e} |-> rows[x]]

ReminderOffsets == {Hours24, Hours2}

\* jobs of earlier calls are left in the scheduler
RemoveJobsNone(js, e) == js

\* scheduler.remove_job for both reminder ids of the event
RemoveJobs(js, e) == [k \in {j \in DOMAIN js : j[2] # e} |-> js[k]]

\* offsets whose moment is still ahead: a DateTrigger job is added
ToSchedule(start, t) == {h \in ReminderOffsets : start - h > t}

\* a late reminder is dropped
ToRunNowDropped(start, t) == {}

\* offsets whose moment has passed while the event has not started: run now
ToRunNow(start, t) == {h \in ReminderOffsets : start - h <= t /\ t < start}

\* schedule_reminders_for_event: the scheduler after the call
ScheduledJobs(js, e, start, t) ==
    LET kept == RemoveJobs(js, e)
        added == {<<h, e>> : h \in ToSchedule(start, t)}
    IN  [k \in DOMAIN kept \cup added |->
            IF k \in added THEN start - k[1] ELSE kept[k]]

\* schedule_reminders_for_event: the event loop after the call
SpawnedReminders(bag, e, start, t) ==
    bag (+) SetToBag({Task("reminder", e, h, 0, Null, "start") : h \in ToRunNow(start, t)})


\* ------------------------------------------------------------------------
\* events.py : on_guild_scheduled_event_create
\* ------------------------------------------------------------------------
\* up to the first await: INSERT OR REPLACE (a fresh row, posted ids NULL),
\* get_channel, build the embed, await ch.send
OnCreateStart(e, start) ==
    /\ NumTasks + 1 <= MaxTasks
    /\ tracked_events' =
          [x \in DOMAIN tracked_events \cup {e} |->
              IF x = e THEN [start |-> start, ch |-> Null, msg |-> Null]
              ELSE tracked_events[x]]
    /\ tasks' = IF get_channel(EventsChannelId)
                THEN Spawn(tasks, Task("create", e, 0, start, Null, "send"))
                ELSE tasks
    /\ UNCHANGED <<event_rsvps, live, nextMsg, jobs, now, chanUp>>
    /\ UNCHANGED <<pollVars, quarterVars, createdVars, digestVars, checkVars, schedVars, msgVars, results>>

\* ch.send returns: UPDATE posted ids, schedule_reminders_for_event
OnCreateSend(t) ==
    /\ Running(t) /\ t.kind = "create" /\ t.pc = "send"
    /\ nextMsg <= MaxMsgs
    /\ NumTasks - 1 + Cardinality(ToRunNow(t.start, now)) <= MaxTasks
    /\ live' = live \cup {[id |-> nextMsg, ev |-> t.ev]}
    /\ nextMsg' = nextMsg + 1
    /\ tracked_events' = SetPosted(tracked_events, t.ev, EventsChannelId, nextMsg)
    /\ jobs' = ScheduledJobs(jobs, t.ev, t.start, now)
    /\ tasks' = SpawnedReminders(Retire(tasks, t), t.ev, t.start, now)
    /\ UNCHANGED <<event_rsvps, now, chanUp>>
    /\ UNCHANGED <<pollVars, quarterVars, createdVars, digestVars, checkVars, schedVars, msgVars, results>>

\* ------------------------------------------------------------------------
\* events.py : on_guild_scheduled_event_update
\* ------------------------------------------------------------------------
\* the task the handler leaves suspended at fetch_message, if any
UpdateFetchTasks(e) ==
    IF e \in DOMAIN tracked_events /\ get_channel(tracked_events[e].ch)
    THEN {Task("update", e, 0, 0, tracked_events[e].msg, "fetch")}
    ELSE {}

\* an update handler that re-schedules without storing the new start time
OnUpdateStartKeepsStart(e, start) ==
    /\ NumTasks + Cardinality(ToRunNow(start, now)) + 1 <= MaxTasks
    /\ jobs' = ScheduledJobs(jobs, e, start, now)
    /\ tasks' = SpawnedReminders(tasks, e, start, now) (+) SetToBag(UpdateFetchTasks(e))
    /\ UNCHANGED <<tracked_events, event_rsvps, live, nextMsg, now, chanUp>>
    /\ UNCHANGED <<pollVars, quarterVars, createdVars, digestVars, checkVars, schedVars, msgVars, results>>

\* up to the first await: UPDATE start_time, schedule_reminders_for_event,
\* SELECT the posted ids, get_channel, await fetch_message
OnUpdateStart(e, start) ==
    /\ NumTasks + Cardinality(ToRunNow(start, now)) + 1 <= MaxTasks
    /\ tracked_events' =
          IF e \in DOMAIN tracked_events
          THEN [tracked_events EXCEPT ![e] = [@ EXCEPT !.start = start]]
          ELSE tracked_events
    /\ jobs' = ScheduledJobs(jobs, e, start, now)
    /\ tasks' = SpawnedReminders(tasks, e, start, now) (+) SetToBag(UpdateFetchTasks(e))
    /\ UNCHANGED <<event_rsvps, live, nextMsg, now, chanUp>>
    /\ UNCHANGED <<pollVars, quarterVars, createdVars, digestVars, checkVars, schedVars, msgVars, results>>

\* fetch_message returns: build the embed and await msg.edit, or NotFound
\* is raised and swallowed by "except Exception: pass"
OnUpdateFetch(t) ==
    /\ Running(t) /\ t.kind = "update" /\ t.pc = "fetch"
    /\ tasks' = IF t.msg \in LiveIds
                THEN Spawn(Retire(tasks, t), [t EXCEPT !.pc = "edit"])
                ELSE Retire(tasks, t)
    /\ UNCHANGED <<tracked_events, event_rsvps, live, nextMsg, jobs, now, chanUp>>
    /\ UNCHANGED <<pollVars, quarterVars, createdVars, digestVars, checkVars, schedVars, msgVars, results>>

\* msg.edit returns (or raises NotFound, swallowed)
OnUpdateEdit(t) ==
    /\ Running(t) /\ t.kind = "update" /\ t.pc = "edit"
    /\ tasks' = Retire(tasks, t)
    /\ UNCHANGED <<tracked_events, event_rsvps, live, nextMsg, jobs, now, chanUp>>
    /\ UNCHANGED <<pollVars, quarterVars, createdVars, digestVars, checkVars, schedVars, msgVars, results>>

\* ------------------------------------------------------------------------
\* events.py : on_guild_scheduled_event_delete
\* ------------------------------------------------------------------------
\* the two unconditional DELETE statements that end the handler
RsvpsWithout(e) == {r \in event_rsvps : r[1] # e}

\* up to the first await: SELECT the posted ids; with a row and a channel
\* await fetch_message, otherwise go straight to the DELETEs
OnDeleteStart(e) ==
    /\ NumTasks + 1 <= MaxTasks
    /\ IF e \in DOMAIN tracked_events /\ get_channel(tracked_events[e].ch)
       THEN /\ tasks' = Spawn(tasks, Task("delete", e, 0, 0, tracked_events[e].msg, "fetch"))
            /\ UNCHANGED <<tracked_events, event_rsvps>>
       ELSE /\ tracked_events' = DeleteRow(tracked_events, e)
            /\ event_rsvps' = RsvpsWithout(e)
            /\ UNCHANGED tasks
    /\ UNCHANGED <<live, nextMsg, jobs, now, chanUp>>
    /\ UNCHANGED <<pollVars, quarterVars, createdVars, digestVars, checkVars, schedVars, msgVars, results>>

\* a NotFound of fetch_message that ends the handler before its DELETEs
OnDeleteFetchAborts(t) ==
    /\ Running(t) /\ t.kind = "delete" /\ t.pc = "fetch"
    /\ tasks' = IF t.msg \in LiveIds
                THEN Spawn(Retire(tasks, t), [t EXCEPT !.pc = "delete"])
                ELSE Retire(tasks, t)
    /\ UNCHANGED <<tracked_events, event_rsvps>>
    /\ UNCHANGED <<live, nextMsg, jobs, now, chanUp>>
    /\ UNCHANGED <<pollVars, quarterVars, createdVars, digestVars, checkVars, schedVars, msgVars, results>>

\* fetch_message returns: await msg.delete, or NotFound is swallowed and
\* the rows are deleted
OnDeleteFetch(t) ==
    /\ Running(t) /\ t.kind = "delete" /\ t.pc = "fetch"
    /\ IF t.msg \in LiveIds
       THEN /\ tasks' = Spawn(Retire(tasks, t), [t EXCEPT !.pc = "delete"])
            /\ UNCHANGED <<tracked_events, event_rsvps>>
       ELSE /\ tasks' = Retire(tasks, t)
            /\ tracked_events' = DeleteRow(tracked_events, t.ev)
            /\ event_rsvps' = RsvpsWithout(t.ev)
    /\ UNCHANGED <<live, nextMsg, jobs, now, chanUp>>
    /\ UNCHANGED <<pollVars, quarterVars, createdVars, digestVars, checkVars, schedVars, msgVars, results>>

\* msg.delete returns (or raises NotFound, swallowed): the rows are deleted
OnDeleteMsg(t) ==
    /\ Running(t) /\ t.kind = "delete" /\ t.pc = "delete"
    /\ live' = {m \in live : m.id # t.msg}
    /\ tracked_events' = DeleteRow(tracked_events, t.ev)
    /\ event_rsvps' = RsvpsWithout(t.ev)
    /\ tasks' = Retire(tasks, t)
    /\ UNCHANGED <<nextMsg, jobs, now, chanUp>>
    /\ UNCHANGED <<pollVars, quarterVars, createdVars, digestVars, checkVars, schedVars, msgVars, results>>

\* ------------------------------------------------------------------------
\* events.py : schedule_reminders_for_event.reminder_coro
\* ------------------------------------------------------------------------
\* up to the first await: get_channel, build the embed, SELECT the posted
\* ids; with a row and its channel await fetch_message, else await ch.send
ReminderStart(t) ==
    /\ Running(t) /\ t.kind = "reminder" /\ t.pc = "start"
    /\ tasks' =
          IF ~get_channel(EventsChannelId) THEN Retire(tasks, t)
          ELSE IF t.ev \in DOMAIN tracked_events /\ get_channel(tracked_events[t.ev].ch)
          THEN Spawn(Retire(tasks, t), [t EXCEPT !.pc = "fetch", !.msg = tracked_events[t.ev].msg])
          ELSE Spawn(Retire(tasks, t), [t EXCEPT !.pc = "send"])
    /\ UNCHANGED <<tracked_events, event_rsvps, live, nextMsg, jobs, now, chanUp>>
    /\ UNCHANGED <<pollVars, quarterVars, createdVars, digestVars, checkVars, schedVars, msgVars, results>>

\* a reminder that goes on to ch.send without deleting the old message
ReminderFetchNoDelete(t) ==
    /\ Running(t) /\ t.kind = "reminder" /\ t.pc = "fetch"
    /\ tasks' = Spawn(Retire(tasks, t), [t EXCEPT !.pc = "send"])
    /\ UNCHANGED <<tracked_events, event_rsvps, live, nextMsg, jobs, now, chanUp>>
    /\ UNCHANGED <<pollVars, quarterVars, createdVars, digestVars, checkVars, schedVars, msgVars, results>>

\* fetch_message returns: await old_msg.delete, or NotFound is swallowed
ReminderFetch(t) ==
    /\ Running(t) /\ t.kind = "reminder" /\ t.pc = "fetch"
    /\ tasks' = IF t.msg \in LiveIds
                THEN Spawn(Retire(tasks, t), [t EXCEPT !.pc = "delete"])
                ELSE Spawn(Retire(tasks, t), [t EXCEPT !.pc = "send"])
    /\ UNCHANGED <<tracked_events, event_rsvps, live, nextMsg, jobs, now, chanUp>>
    /\ UNCHANGED <<pollVars, quarterVars, createdVars, digestVars, checkVars, schedVars, msgVars, results>>

\* old_msg.delete returns (or raises NotFound, swallowed); await ch.send
ReminderDelete(t) ==
    /\ Running(t) /\ t.kind = "reminder" /\ t.pc = "delete"
    /\ live' = {m \in live : m.id # t.msg}
    /\ tasks' = Spawn(Retire(tasks, t), [t EXCEPT !.pc = "send"])
    /\ UNCHANGED <<tracked_events, event_rsvps, nextMsg, jobs, now, chanUp>>
    /\ UNCHANGED <<pollVars, quarterVars, createdVars, digestVars, checkVars, schedVars, msgVars, results>>

\* ch.send returns: UPDATE the posted ids
ReminderSend(t) ==
    /\ Running(t) /\ t.kind = "reminder" /\ t.pc = "send"
    /\ nextMsg <= MaxMsgs
    /\ live' = live \cup {[id |-> nextMsg, ev |-> t.ev]}
    /\ nextMsg' = nextMsg + 1
    /\ tracked_events' = SetPosted(tracked_events, t.ev, EventsChannelId, nextMsg)
    /\ tasks' = Retire(tasks, t)
    /\ UNCHANGED <<event_rsvps, jobs, now, chanUp>>
    /\ UNCHANGED <<pollVars, quarterVars, createdVars, digestVars, checkVars, schedVars, msgVars, results>>

\* ------------------------------------------------------------------------
\* events.py : the scheduler, the clock and the environment
\* ------------------------------------------------------------------------
\* a DateTrigger job whose run_date has come: the lambda creates the task
FireJob(k) ==
    /\ k \in DOMAIN jobs /\ jobs[k] <= now
    /\ NumTasks + 1 <= MaxTasks
    /\ jobs' = [j \in DOMAIN jobs \ {k} |-> jobs[j]]
    /\ tasks' = Spawn(tasks, Task(IF k[2] \in EventIds THEN "reminder" ELSE "created_reminder",
                                  k[2], k[1], 0, Null, "start"))
    /\ UNCHANGED <<tracked_events, event_rsvps, live, nextMsg, now, chanUp>>
    /\ UNCHANGED <<pollVars, quarterVars, createdVars, digestVars, checkVars, schedVars, msgVars, results>>

\* one hour passes; the scheduler fires due jobs before the clock moves on
Tick ==
    /\ now < MaxTime
    /\ \A k \in DOMAIN jobs : jobs[k] > now
    /\ now' = now + 1
    /\ UNCHANGED <<tracked_events, event_rsvps, live, nextMsg, jobs, tasks, chanUp>>
    /\ UNCHANGED <<pollVars, quarterVars, createdVars, digestVars, checkVars, schedVars, msgVars, results>>

\* a moderator deletes a message of the bot
ModeratorDelete(m) ==
    /\ m \in live
    /\ live' = live \ {m}
    /\ UNCHANGED <<tracked_events, event_rsvps, nextMsg, jobs, tasks, now, chanUp>>
    /\ UNCHANGED <<pollVars, quarterVars, createdVars, digestVars, checkVars, schedVars, msgVars, results>>

\* the events channel disappears from / returns to the client's cache
ChannelChange ==
    /\ chanUp' = ~chanUp
    /\ UNCHANGED <<tracked_events, event_rsvps, live, nextMsg, jobs, tasks, now>>
    /\ UNCHANGED <<pollVars, quarterVars, createdVars, digestVars, checkVars, schedVars, msgVars, results>>

\* EventView.interested: the toggle on a message of the event (the
\* best-effort re-render that follows changes no stored state)
Interested(e, u) ==
    /\ LiveFor(e) # {}
    /\ event_rsvps' = IF <<e, u>> \in event_rsvps
                      THEN event_rsvps \ {<<e, u>>}
                      ELSE event_rsvps \cup {<<e, u>>}
    /\ UNCHANGED <<tracked_events, live, nextMsg, jobs, tasks, now, chanUp>>
    /\ UNCHANGED <<pollVars, quarterVars, createdVars, digestVars, checkVars, schedVars, msgVars, results>>

\* ------------------------------------------------------------------------
\* bot.py : created events and their reminders
\* ------------------------------------------------------------------------
CreatedReminderOffsets == {Hours24, Hours1}

\* UPDATE created_events SET posted_channel_id = ?, posted_message_id = ? WHERE id = ?
SetCreatedPosted(rows, c, ch, m) ==
    IF c \in DOMAIN rows
    THEN [rows EXCEPT ![c] = [@ EXCEPT !.ch = ch, !.msg = m]]
    ELSE rows

\* offsets whose moment is still ahead: a DateTrigger job is added
CreatedToSchedule(start, t) == {h \in CreatedReminderOffsets : start - h > t}

\* offsets whose moment has passed while the event has not started: run now
CreatedToRunNow(start, t) == {h \in CreatedReminderOffsets : start - h <= t /\ t < start}

\* schedule_reminders_for_created_event: the scheduler after the call
CreatedScheduledJobs(js, c, start, t) ==
    LET kept == RemoveJobs(js, c)
        added == {<<h, c>> : h \in CreatedToSchedule(start, t)}
    IN  [k \in DOMAIN kept \cup added |->
            IF k \in added THEN start - k[1] ELSE kept[k]]

\* schedule_reminders_for_created_event: the event loop after the call
CreatedSpawnedReminders(bag, c, start, t) ==
    bag (+) SetToBag({Task("created_reminder", c, h, 0, Null, "start") :
                         h \in CreatedToRunNow(start, t)})

\* CreateEventModal.on_submit with parsable fields, after the deferral:
\* INSERT the row (posted ids NULL), the creator's RSVP, get the target
\* channel, build the embed, await target_channel.send
CreateEventSubmit(c, u, start) ==
    /\ c \notin DOMAIN created_events
    /\ NumTasks + 1 <= MaxTasks
    /\ created_events' =
          [x \in DOMAIN created_events \cup {c} |->
              IF x = c THEN [start |-> start, ch |-> Null, msg |-> Null]
              ELSE created_events[x]]
    /\ created_event_rsvps' = created_event_rsvps \cup {<<c, u>>}
    /\ tasks' = IF get_channel(CreatedEventsChannelId)
                THEN Spawn(tasks, Task("created_create", c, 0, start, Null, "send"))
                ELSE tasks
    /\ UNCHANGED <<tracked_events, event_rsvps, live, nextMsg, jobs, now, chanUp>>
    /\ UNCHANGED <<pollVars, quarterVars, digestVars, checkVars, schedVars, msgVars, results>>

\* CreateEventModal.on_submit with a date range or a time range that
\* parse_date_range / parse_time_range cannot parse: the hint is sent to the
\* user and the handler returns
CreateEventUnparsed(u) ==
    /\ results' = [fn |-> "event_form_rejected", val |-> u]
    /\ UNCHANGED <<evVars, pollVars, quarterVars, createdVars, digestVars, checkVars, schedVars, msgVars>>

\* target_channel.send returns: UPDATE the posted ids,
\* schedule_reminders_for_created_event
CreateEventSend(t) ==
    /\ Running(t) /\ t.kind = "created_create" /\ t.pc = "send"
    /\ nextMsg <= MaxMsgs
    /\ NumTasks - 1 + Cardinality(CreatedToRunNow(t.start, now)) <= MaxTasks
    /\ live' = live \cup {[id |-> nextMsg, ev |-> t.ev]}
    /\ nextMsg' = nextMsg + 1
    /\ created_events' = SetCreatedPosted(created_events, t.ev, CreatedEventsChannelId, nextMsg)
    /\ jobs' = CreatedScheduledJobs(jobs, t.ev, t.start, now)
    /\ tasks' = CreatedSpawnedReminders(Retire(tasks, t), t.ev, t.start, now)
    /\ UNCHANGED <<tracked_events, event_rsvps, now, chanUp, created_event_rsvps>>
    /\ UNCHANGED <<pollVars, quarterVars, digestVars, checkVars, schedVars, msgVars, results>>

\* _created_event_reminder_coro up to the first await: get_channel, SELECT
\* the posted ids; with both ids and their channel await fetch_message,
\* else build the embed and await ch.send
CreatedReminderStart(t) ==
    /\ Running(t) /\ t.kind = "created_reminder" /\ t.pc = "start"
    /\ tasks' =
          IF ~get_channel(CreatedEventsChannelId) THEN Retire(tasks, t)
          ELSE IF /\ t.ev \in DOMAIN created_events
                  /\ created_events[t.ev].msg # Null
                  /\ get_channel(created_events[t.ev].ch)
          THEN Spawn(Retire(tasks, t), [t EXCEPT !.pc = "fetch", !.msg = created_events[t.ev].msg])
          ELSE Spawn(Retire(tasks, t), [t EXCEPT !.pc = "send"])
    /\ UNCHANGED <<tracked_events, event_rsvps, live, nextMsg, jobs, now, chanUp>>
    /\ UNCHANGED <<pollVars, quarterVars, createdVars, digestVars, checkVars, schedVars, msgVars, results>>

\* a created-event reminder that keeps the posted ids when fetch_message
\* raises discord.NotFound
CreatedReminderFetchKeepsRef(t) ==
    /\ Running(t) /\ t.kind = "created_reminder" /\ t.pc = "fetch"
    /\ tasks' = IF t.msg \in LiveIds
                THEN Spawn(Retire(tasks, t), [t EXCEPT !.pc = "delete"])
                ELSE Spawn(Retire(tasks, t), [t EXCEPT !.pc = "send"])
    /\ UNCHANGED <<tracked_events, event_rsvps, live, nextMsg, jobs, now, chanUp>>
    /\ UNCHANGED <<pollVars, quarterVars, createdVars, digestVars, checkVars, schedVars, msgVars, results>>

\* fetch_message returns: await old_msg.delete, or discord.NotFound is
\* caught and the posted ids are set to NULL
CreatedReminderFetch(t) ==
    /\ Running(t) /\ t.kind = "created_reminder" /\ t.pc = "fetch"
    /\ IF t.msg \in LiveIds
       THEN /\ tasks' = Spawn(Retire(tasks, t), [t EXCEPT !.pc = "delete"])
            /\ UNCHANGED created_events
       ELSE /\ tasks' = Spawn(Retire(tasks, t), [t EXCEPT !.pc = "send"])
            /\ created_events' = SetCreatedPosted(created_events, t.ev, Null, Null)
    /\ UNCHANGED <<tracked_events, event_rsvps, live, nextMsg, jobs, now, chanUp>>
    /\ UNCHANGED <<pollVars, quarterVars, digestVars, checkVars, schedVars, msgVars, created_event_rsvps, results>>

\* old_msg.delete returns (or raises NotFound, passed over); await ch.send
CreatedReminderDelete(t) ==
    /\ Running(t) /\ t.kind = "created_reminder" /\ t.pc = "delete"
    /\ live' = {m \in live : m.id # t.msg}
    /\ tasks' = Spawn(Retire(tasks, t), [t EXCEPT !.pc = "send"])
    /\ UNCHANGED <<tracked_events, event_rsvps, nextMsg, jobs, now, chanUp>>
    /\ UNCHANGED <<pollVars, quarterVars, createdVars, digestVars, checkVars, schedVars, msgVars, results>>

\* ch.send returns: UPDATE the posted ids
CreatedReminderSend(t) ==
    /\ Running(t) /\ t.kind = "created_reminder" /\ t.pc = "send"
    /\ nextMsg <= MaxMsgs
    /\ live' = live \cup {[id |-> nextMsg, ev |-> t.ev]}
    /\ nextMsg' = nextMsg + 1
    /\ created_events' = SetCreatedPosted(created_events, t.ev, CreatedEventsChannelId, nextMsg)
    /\ tasks' = Retire(tasks, t)
    /\ UNCHANGED <<tracked_events, event_rsvps, jobs, now, chanUp, created_event_rsvps>>
    /\ UNCHANGED <<pollVars, quarterVars, digestVars, checkVars, schedVars, msgVars, results>>

\* a callback suspended at an await of its interaction
ClickTask(kind, c, u, pc) == [kind |-> kind, ev |-> c, user |-> u, pc |-> pc]

\* n presses of the button of EventSignupView by one user: each callback
\* runs up to "await interaction.response.defer()"
InterestedClicks(c, u, n) ==
    /\ LiveFor(c) # {}
    /\ NumTasks + n <= MaxTasks
    /\ tasks' = tasks (+) [x \in {ClickTask("rsvp", c, u, "deferred")} |-> n]
    /\ UNCHANGED <<tracked_events, event_rsvps, live, nextMsg, jobs, now, chanUp>>
    /\ UNCHANGED <<pollVars, quarterVars, createdVars, digestVars, checkVars, schedVars, msgVars, results>>

\* a toggle that acts on an existence check made before a suspension: the
\* row may have changed since
ToggleInterestedStale(t) ==
    /\ Running(t) /\ t.kind = "rsvp" /\ t.pc = "deferred"
    /\ \E seen \in BOOLEAN :
          created_event_rsvps' = IF seen
                                 THEN created_event_rsvps \ {<<t.ev, t.user>>}
                                 ELSE created_event_rsvps \cup {<<t.ev, t.user>>}
    /\ tasks' = Retire(tasks, t)
    /\ UNCHANGED <<tracked_events, event_rsvps, live, nextMsg, jobs, now, chanUp>>
    /\ UNCHANGED <<pollVars, quarterVars, digestVars, checkVars, schedVars, msgVars, created_events, results>>

\* EventSignupView.toggle_interested after the deferral: SELECT 1, then
\* DELETE or INSERT OR IGNORE (the re-render that follows stores nothing)
ToggleInterested(t) ==
    /\ Running(t) /\ t.kind = "rsvp" /\ t.pc = "deferred"
    /\ created_event_rsvps' = IF <<t.ev, t.user>> \in created_event_rsvps
                              THEN created_event_rsvps \ {<<t.ev, t.user>>}
                              ELSE created_event_rsvps \cup {<<t.ev, t.user>>}
    /\ tasks' = Retire(tasks, t)
    /\ UNCHANGED <<tracked_events, event_rsvps, live, nextMsg, jobs, now, chanUp>>
    /\ UNCHANGED <<pollVars, quarterVars, digestVars, checkVars, schedVars, msgVars, created_events, results>>

\* ------------------------------------------------------------------------
\* bot.py : poll persistence helpers
\* ------------------------------------------------------------------------
\* The SELECTs on votes and availability carry no ORDER BY; every claim
\* settled here reads their result as a set of rows and the participants of
\* a slot as a set of users.

SlotsOf(p) == IF p \in WeeklyPolls THEN WeeklySlots ELSE QuarterlyDays

\* str.strip(): leading and trailing blanks removed
RECURSIVE StripLeft(_)
StripLeft(t) == IF t # <<>> /\ Head(t) = " " THEN StripLeft(Tail(t)) ELSE t

RECURSIVE StripRight(_)
StripRight(t) ==
    IF t # <<>> /\ t[Len(t)] = " " THEN StripRight(SubSeq(t, 1, Len(t) - 1)) ELSE t

Strip(t) == StripRight(StripLeft(t))

\* add_option: INSERT INTO options
add_option(rows, id, p, text, author) ==
    rows \cup {[id |-> id, poll |-> p, text |-> text, author |-> author]}

\* get_options: the rows of the poll (ORDER BY id ASC is applied by MatchLoop)
get_options(p) == {o \in options : o.poll = p}

\* get_user_options: the rows of the poll written by the user
get_user_options(p, u) == {o \in options : o.poll = p /\ o.author = u}

\* add_vote: INSERT OR IGNORE INTO votes
add_vote(rows, p, oid, u) == rows \cup {<<p, oid, u>>}

\* a DELETE without the option_id condition
remove_votes_of_user(rows, p, oid, u) == {r \in rows : ~(r[1] = p /\ r[3] = u)}

\* remove_vote: DELETE FROM votes WHERE poll_id, option_id, user_id
remove_vote(rows, p, oid, u) == rows \ {<<p, oid, u>>}

\* a toggle that never takes the remove_vote branch
ToggleVoteAlwaysAdds(rows, p, oid, u) == add_vote(rows, p, oid, u)

\* PollButton.callback / QuarterlyPollButton.callback: SELECT 1, then
\* remove_vote if a row exists, add_vote otherwise
ToggleVote(rows, p, oid, u) ==
    IF <<p, oid, u>> \in rows
    THEN remove_vote(rows, p, oid, u)
    ELSE add_vote(rows, p, oid, u)

\* voters of the whole poll, the option id ignored
VotersOfAnyOption(p, oid) == {u \in Users : \E v \in votes : v[1] = p /\ v[3] = u}

\* get_votes_for_poll, grouped as votes_map.get(opt_id, [])
VotersOf(p, oid) == {u \in Users : <<p, oid, u>> \in votes}

\* persist_availability: DELETE the rows of (poll, user), INSERT OR IGNORE
\* one row per slot
persist_availability(rows, p, u, slots) ==
    {r \in rows : ~(r[1] = p /\ r[2] = u)} \cup {<<p, u, sl>> : sl \in slots}

\* SELECT slot FROM availability WHERE poll_id = ? AND user_id = ?
PersistedSlots(rows, p, u) == {r[3] : r \in {x \in rows : x[1] = p /\ x[2] = u}}

\* ------------------------------------------------------------------------
\* bot.py : matching and embed generation
\* ------------------------------------------------------------------------
\* slot_to_users / slot_map: the voters that marked the slot
SlotUsers(p, voters, sl) == {u \in voters : <<p, u, sl>> \in availability}

\* the slots at least one of the voters marked (the keys of slot_to_users)
MarkedSlots(p, voters) == {sl \in SlotsOf(p) : SlotUsers(p, voters, sl) # {}}

\* common_slots: "if len(users) >= 2"
CommonSlots(p, voters) ==
    {[slot |-> sl, users |-> SlotUsers(p, voters, sl)] :
        sl \in {x \in MarkedSlots(p, voters) : Cardinality(SlotUsers(p, voters, x)) >= 2}}

MaxCount(infos) ==
    CHOOSE n \in {Cardinality(i.users) : i \in infos} :
        \A i \in infos : Cardinality(i.users) <= n

\* best: the infos whose user count equals max_count
BestOf(infos) ==
    IF infos = {} THEN {} ELSE {i \in infos : Cardinality(i.users) = MaxCount(infos)}

OptionRow(id) == CHOOSE o \in options : o.id = id

MinOf(S) == CHOOSE x \in S : \A y \in S : x <= y

\* results[opt_text] = best
Put(f, k, v) == [x \in DOMAIN f \cup {k} |-> IF x = k THEN v ELSE f[x]]

\* the loop of compute_matches_for_poll_from_db over the options in id
\* order: options with fewer than 2 voters or without a common slot are
\* skipped, the others assign results[opt_text]
RECURSIVE MatchLoop(_, _, _)
MatchLoop(p, ids, acc) ==
    IF ids = {} THEN acc
    ELSE LET id == MinOf(ids)
             o == OptionRow(id)
             voters == VotersOf(p, id)
             best == BestOf(CommonSlots(p, voters))
         IN  MatchLoop(p, ids \ {id},
                       IF Cardinality(voters) < 2 \/ best = {}
                       THEN acc
                       ELSE Put(acc, o.text, best))

compute_matches_for_poll_from_db(p) ==
    MatchLoop(p, {o.id : o \in get_options(p)}, <<>>)

\* one field of the weekly embed: name, the voters and the best common slots
\* (empty when the field has no "Gemeinsame Zeit" part)
PollField(p, o) ==
    LET voters == VotersOf(p, o.id)
    IN  [id |-> o.id,
         name |-> o.text,
         voters |-> voters,
         best |-> IF Cardinality(voters) >= 2
                  THEN BestOf(CommonSlots(p, voters))
                  ELSE {}]

\* generate_poll_embed_from_db: one field per option
generate_poll_embed_from_db(p) == {PollField(p, o) : o \in get_options(p)}

\* generate_quarterly_poll_embed_from_db: the same fields, "Gemeinsame Tage"
generate_quarterly_poll_embed_from_db(p) == {PollField(p, o) : o \in get_options(p)}

\* ------------------------------------------------------------------------
\* bot.py : idea and vote callbacks
\* ------------------------------------------------------------------------
Result(fn, val) == [fn |-> fn, val |-> val]

\* the embed the callback renders for the poll message
RenderedPoll(p) ==
    IF p \in WeeklyPolls
    THEN generate_poll_embed_from_db(p)
    ELSE generate_quarterly_poll_embed_from_db(p)

\* the best-effort update of SuggestModal.on_submit and of
\* DeleteOwnOptionButtonEphemeral.callback: the newest message of the
\* channel whose title is a poll title is edited to the content and the
\* view of poll p
BestEffortUpdate(msgs, p) ==
    IF msgs = <<>> THEN msgs ELSE [msgs EXCEPT ![Len(msgs)].shows = p]

\* SuggestModal.on_submit: empty text is discarded, anything else is added
\* and the poll message is updated, best effort
SuggestModal(p, raw, u) ==
    /\ nextOptionId <= MaxOptions
    /\ UNCHANGED <<votes, availability, temp_selections>>
    /\ UNCHANGED <<evVars, quarterVars, createdVars, digestVars, checkVars, schedVars>>
    /\ IF Strip(raw) = <<>>
       THEN /\ results' = Result("idea_discarded", {})
            /\ UNCHANGED <<options, nextOptionId, poll_messages>>
       ELSE /\ options' = add_option(options, nextOptionId, p, Strip(raw), u)
            /\ nextOptionId' = nextOptionId + 1
            /\ poll_messages' = BestEffortUpdate(poll_messages, p)
            /\ results' = Result("idea_added", RenderedPoll(p)')

\* PollButton.callback: toggle the vote, re-render the weekly embed
PollButton(p, oid, u) ==
    /\ p \in WeeklyPolls
    /\ \E o \in get_options(p) : o.id = oid
    /\ votes' = ToggleVote(votes, p, oid, u)
    /\ UNCHANGED <<options, nextOptionId, availability, temp_selections>>
    /\ UNCHANGED <<evVars, quarterVars, createdVars, digestVars, checkVars, schedVars, msgVars>>
    /\ results' = Result(IF <<p, oid, u>> \in votes THEN "vote_removed" ELSE "vote_added",
                         generate_poll_embed_from_db(p)')

\* QuarterlyPollButton.callback: toggle the vote, re-render the quarterly embed
QuarterlyPollButton(p, oid, u) ==
    /\ p \in QuarterlyPolls
    /\ \E o \in get_options(p) : o.id = oid
    /\ votes' = ToggleVote(votes, p, oid, u)
    /\ UNCHANGED <<options, nextOptionId, availability, temp_selections>>
    /\ UNCHANGED <<evVars, quarterVars, createdVars, digestVars, checkVars, schedVars, msgVars>>
    /\ results' = Result(IF <<p, oid, u>> \in votes THEN "vote_removed" ELSE "vote_added",
                         generate_quarterly_poll_embed_from_db(p)')

\* DELETE FROM options WHERE id = ?
OptionsWithout(rows, oid) == {o \in rows : o.id # oid}

\* a deletion that leaves the votes table alone
VotesKept(rows, oid) == rows

\* DELETE FROM votes WHERE option_id = ?
VotesWithout(rows, oid) == {v \in rows : v[2] # oid}

\* a deletion without the comparison of interaction.user.id with user_id
DeleteOwnOptionUnchecked(p, oid, owner, u) ==
    /\ \E o \in get_user_options(p, owner) : o.id = oid
    /\ options' = OptionsWithout(options, oid)
    /\ votes' = VotesWithout(votes, oid)
    /\ results' = Result("option_deleted", {v \in votes : v[2] = oid})
    /\ UNCHANGED <<nextOptionId, availability, temp_selections>>
    /\ UNCHANGED <<evVars, quarterVars, createdVars, digestVars, checkVars, schedVars, msgVars>>

\* DeleteOwnOptionButtonEphemeral.callback: the button of EditOwnIdeasView
\* opened by `owner` for one of the owner's options, pressed by `u`
DeleteOwnOption(p, oid, owner, u) ==
    /\ \E o \in get_user_options(p, owner) : o.id = oid
    /\ IF u # owner
       THEN /\ results' = Result("delete_rejected", {})
            /\ UNCHANGED <<options, votes, poll_messages>>
       ELSE /\ options' = OptionsWithout(options, oid)
            /\ votes' = VotesWithout(votes, oid)
            /\ poll_messages' = BestEffortUpdate(poll_messages, p)
            /\ results' = Result("option_deleted", {v \in votes : v[2] = oid})
    /\ UNCHANGED <<nextOptionId, availability, temp_selections>>
    /\ UNCHANGED <<evVars, quarterVars, createdVars, digestVars, checkVars, schedVars>>

\* ------------------------------------------------------------------------
\* bot.py : availability callbacks
\* ------------------------------------------------------------------------
\* temp_selections.get(poll_id, {}).get(uid, set())
TempOf(tmp, p, u) == IF <<p, u>> \in DOMAIN tmp THEN tmp[<<p, u>>] ELSE {}

SetTemp(tmp, p, u, slots) ==
    [k \in DOMAIN tmp \cup {<<p, u>>} |-> IF k = <<p, u>> THEN slots ELSE tmp[k]]

\* temp_selections[poll_id].pop(uid, None)
PopTemp(tmp, p, u) == [k \in DOMAIN tmp \ {<<p, u>>} |-> tmp[k]]

\* AvailabilityDayView.__init__: a user without a tentative set gets the
\* persisted slots as tentative set
ViewLoaded(tmp, rows, p, u) ==
    IF <<p, u>> \in DOMAIN tmp THEN tmp ELSE SetTemp(tmp, p, u, PersistedSlots(rows, p, u))

\* toggle of one slot / day in a tentative set
ToggleSlot(slots, sl) == IF sl \in slots THEN slots \ {sl} ELSE slots \cup {sl}

\* AddAvailabilityButton.callback and DaySelectButton.callback: a new
\* AvailabilityDayView for the user
OpenAvailabilityView(p, u) ==
    /\ p \in WeeklyPolls
    /\ temp_selections' = ViewLoaded(temp_selections, availability, p, u)
    /\ results' = Result("view_opened", TempOf(temp_selections', p, u))
    /\ UNCHANGED <<options, nextOptionId, votes, availability>>
    /\ UNCHANGED <<evVars, quarterVars, createdVars, digestVars, checkVars, schedVars, msgVars>>

\* a staging click that also writes the tentative set to the availability
\* table
HourButtonPersists(p, u, sl) ==
    /\ p \in WeeklyPolls
    /\ <<p, u>> \in DOMAIN temp_selections
    /\ temp_selections' =
          SetTemp(temp_selections, p, u, ToggleSlot(TempOf(temp_selections, p, u), sl))
    /\ availability' = persist_availability(availability, p, u, TempOf(temp_selections', p, u))
    /\ results' = Result("slot_staged", TempOf(temp_selections', p, u))
    /\ UNCHANGED <<options, nextOptionId, votes>>
    /\ UNCHANGED <<evVars, quarterVars, createdVars, digestVars, checkVars, schedVars, msgVars>>

\* HourButton.callback, a button of the user's AvailabilityDayView
HourButton(p, u, sl) ==
    /\ p \in WeeklyPolls
    /\ <<p, u>> \in DOMAIN temp_selections
    /\ temp_selections' =
          ViewLoaded(SetTemp(temp_selections, p, u, ToggleSlot(TempOf(temp_selections, p, u), sl)),
                     availability, p, u)
    /\ results' = Result("slot_staged", TempOf(temp_selections', p, u))
    /\ UNCHANGED <<options, nextOptionId, votes, availability>>
    /\ UNCHANGED <<evVars, quarterVars, createdVars, digestVars, checkVars, schedVars, msgVars>>

\* SubmitButton.callback: persist the tentative set, pop it, rebuild the view
SubmitButton(p, u) ==
    /\ p \in WeeklyPolls
    /\ <<p, u>> \in DOMAIN temp_selections
    /\ availability' = persist_availability(availability, p, u, TempOf(temp_selections, p, u))
    /\ temp_selections' = ViewLoaded(PopTemp(temp_selections, p, u), availability', p, u)
    /\ results' = Result("availability_saved", TempOf(temp_selections, p, u))
    /\ UNCHANGED <<options, nextOptionId, votes>>
    /\ UNCHANGED <<evVars, quarterVars, createdVars, digestVars, checkVars, schedVars, msgVars>>

\* a removal that forgets the whole poll, not one user
RemovePersistedButtonWholePoll(p, u) ==
    /\ p \in WeeklyPolls
    /\ <<p, u>> \in DOMAIN temp_selections
    /\ availability' = {r \in availability : r[1] # p}
    /\ temp_selections' = [k \in {x \in DOMAIN temp_selections : x[1] # p} |-> temp_selections[k]]
    /\ results' = Result("availability_removed", {})
    /\ UNCHANGED <<options, nextOptionId, votes>>
    /\ UNCHANGED <<evVars, quarterVars, createdVars, digestVars, checkVars, schedVars, msgVars>>

\* RemovePersistedButton.callback: delete the rows, pop the tentative set,
\* rebuild the view
RemovePersistedButton(p, u) ==
    /\ p \in WeeklyPolls
    /\ <<p, u>> \in DOMAIN temp_selections
    /\ availability' = persist_availability(availability, p, u, {})
    /\ temp_selections' = ViewLoaded(PopTemp(temp_selections, p, u), availability', p, u)
    /\ results' = Result("availability_removed", {})
    /\ UNCHANGED <<options, nextOptionId, votes>>
    /\ UNCHANGED <<evVars, quarterVars, createdVars, digestVars, checkVars, schedVars, msgVars>>

\* DayAvailButton.callback: toggle the day in the tentative set, which
\* starts empty (setdefault)
DayAvailButton(p, u, day) ==
    /\ p \in QuarterlyPolls
    /\ temp_selections' = SetTemp(temp_selections, p, u, ToggleSlot(TempOf(temp_selections, p, u), day))
    /\ results' = Result("day_staged", TempOf(temp_selections', p, u))
    /\ UNCHANGED <<options, nextOptionId, votes, availability>>
    /\ UNCHANGED <<evVars, quarterVars, createdVars, digestVars, checkVars, schedVars, msgVars>>

\* QuarterlySubmitButton.callback: persist the tentative set and pop it
QuarterlySubmitButton(p, u) ==
    /\ p \in QuarterlyPolls
    /\ availability' = persist_availability(availability, p, u, TempOf(temp_selections, p, u))
    /\ temp_selections' = PopTemp(temp_selections, p, u)
    /\ results' = Result("days_saved", TempOf(temp_selections, p, u))
    /\ UNCHANGED <<options, nextOptionId, votes>>
    /\ UNCHANGED <<evVars, quarterVars, createdVars, digestVars, checkVars, schedVars, msgVars>>

\* ------------------------------------------------------------------------
\* quarter_poll.py : callbacks
\* ------------------------------------------------------------------------
\* datetime.fromisoformat(p).date().isoformat(): the day of an ISO date or
\* date-time, "" when fromisoformat raises
ParseDay(tok) ==
    IF tok \in {"2026-01-05", "2026-01-05T10:00"} THEN "2026-01-05"
    ELSE IF tok = "2026-01-12" THEN "2026-01-12"
    ELSE ""

\* the days the loop of QuarterPickDaysModal.on_submit inserts
ParsedDays(toks) == {ParseDay(t) : t \in toks} \ {""}

\* QuarterIdeaModal.on_submit: INSERT INTO quarter_options with the stripped
\* title
QuarterIdeaModal(p, raw, u) ==
    /\ nextQuarterOptionId <= MaxQuarterOptions
    /\ quarter_options' = quarter_options \cup
          {[id |-> nextQuarterOptionId, poll |-> p, title |-> Strip(raw), author |-> u]}
    /\ nextQuarterOptionId' = nextQuarterOptionId + 1
    /\ results' = Result("quarter_idea_added", {})
    /\ UNCHANGED <<quarter_votes, quarter_availability>>
    /\ UNCHANGED <<evVars, pollVars, createdVars, digestVars, checkVars, schedVars, msgVars>>

\* QuarterVoteButton.callback: SELECT 1, then DELETE or INSERT OR IGNORE
QuarterToggleVote(rows, p, oid, u) ==
    IF <<p, oid, u>> \in rows THEN rows \ {<<p, oid, u>>} ELSE rows \cup {<<p, oid, u>>}

QuarterVoteButton(p, oid, u) ==
    /\ \E o \in quarter_options : o.poll = p /\ o.id = oid
    /\ quarter_votes' = QuarterToggleVote(quarter_votes, p, oid, u)
    /\ results' = Result(IF <<p, oid, u>> \in quarter_votes
                         THEN "quarter_vote_removed" ELSE "quarter_vote_added", {})
    /\ UNCHANGED <<quarter_options, nextQuarterOptionId, quarter_availability>>
    /\ UNCHANGED <<evVars, pollVars, createdVars, digestVars, checkVars, schedVars, msgVars>>

\* the loop of QuarterPickDaysModal.on_submit: INSERT OR IGNORE one row per
\* parsable part
QuarterDaysSaved(rows, p, u, toks) == rows \cup {<<p, u, d>> : d \in ParsedDays(toks)}

\* SELECT day FROM quarter_availability of one user and poll
QuarterDaysOf(rows, p, u) == {r[3] : r \in {x \in rows : x[1] = p /\ x[2] = u}}

\* QuarterPickDaysModal.on_submit
QuarterPickDaysModal(p, u, toks) ==
    /\ quarter_availability' = QuarterDaysSaved(quarter_availability, p, u, toks)
    /\ results' = Result("quarter_days_saved", ParsedDays(toks))
    /\ UNCHANGED <<quarter_options, nextQuarterOptionId, quarter_votes>>
    /\ UNCHANGED <<evVars, pollVars, createdVars, digestVars, checkVars, schedVars, msgVars>>

\* ------------------------------------------------------------------------
\* quarter_poll.py : build_quarter_embed
\* ------------------------------------------------------------------------
QuarterVotersOf(p, oid) == {u \in Users : <<p, oid, u>> \in quarter_votes}

\* day_map: the voters available on the day
DayUsers(p, voters, d) == {u \in voters : <<p, u, d>> \in quarter_availability}

\* common: "if len(ulist) >= 1", over the days some voter marked
QuarterCommon(p, voters) ==
    {[slot |-> d, users |-> DayUsers(p, voters, d)] :
        d \in {x \in {r[3] : r \in quarter_availability} :
                  Cardinality(DayUsers(p, voters, x)) >= 1}}

\* one field of build_quarter_embed: "if voters:" guards the best days
QuarterField(p, o) ==
    LET voters == QuarterVotersOf(p, o.id)
    IN  [id |-> o.id,
         name |-> o.title,
         voters |-> voters,
         best |-> IF voters # {} THEN BestOf(QuarterCommon(p, voters)) ELSE {}]

build_quarter_embed(p) == {QuarterField(p, o) : o \in {x \in quarter_options : x.poll = p}}

\* ------------------------------------------------------------------------
\* bot.py : daily and weekly digest
\* ------------------------------------------------------------------------
DigestKinds == {"daily", "weekly"}

\* the most recent poll the digest reports on: LIKE / NOT LIKE '%_quarterly'
DigestPoll(kind) ==
    IF kind = "daily" THEN CHOOSE p \in WeeklyPolls : TRUE ELSE CHOOSE p \in QuarterlyPolls : TRUE

\* get_last_posted_matches / get_last_posted_weekly_matches: {} without a row
LastPosted(kind, p) ==
    LET tbl == IF kind = "daily" THEN last_posted_matches ELSE last_posted_weekly_matches
    IN  IF p \in DOMAIN tbl THEN tbl[p] ELSE <<>>

\* get_last_daily_summary / get_last_weekly_summary: None without a row
LastSummary(kind, ch) ==
    LET tbl == IF kind = "daily" THEN daily_summaries ELSE weekly_summaries
    IN  IF ch \in DOMAIN tbl THEN tbl[ch] ELSE Null

\* a digest that reports every current match
NewMatchesAll(cur, last) == cur

\* the loop over current_matches: a key that the snapshot lacks is new with
\* all its infos, otherwise the infos that the snapshot's list lacks
NewMatches(cur, last) ==
    LET keys == {k \in DOMAIN cur : k \notin DOMAIN last \/ cur[k] \ last[k] # {}}
    IN  [k \in keys |-> IF k \notin DOMAIN last THEN cur[k] ELSE cur[k] \ last[k]]

\* post_*_summary_to suspended at an await
DigestTask(kind, ch, p, cur, msg, pc) ==
    [kind |-> "summary", ev |-> kind, ch |-> ch, poll |-> p, cur |-> cur, msg |-> msg, pc |-> pc]

\* up to the first await: the new options (created within the window), the
\* current matches, the snapshot, the difference; nothing new: return;
\* otherwise the embed, the marker, await fetch_message or await send
DigestStart(kind, ch, fresh) ==
    LET p == DigestPoll(kind)
        cur == compute_matches_for_poll_from_db(p)
        new == NewMatches(cur, LastPosted(kind, p))
        old == LastSummary(kind, ch)
    IN  /\ fresh \subseteq get_options(p)
        /\ fresh # {} \/ DOMAIN new # {}
        /\ NumTasks + 1 <= MaxTasks
        /\ tasks' = Spawn(tasks, DigestTask(kind, ch, p, cur, old,
                                            IF old # Null THEN "fetch" ELSE "send"))
        /\ results' = [fn |-> "summary", val |-> [kind |-> kind, poll |-> p, new |-> new]]
        /\ UNCHANGED <<tracked_events, event_rsvps, live, nextMsg, jobs, now, chanUp>>
        /\ UNCHANGED <<pollVars, quarterVars, createdVars, digestVars, checkVars, schedVars, msgVars>>

\* a digest that leaves the previous summary in place
DigestFetchNoDelete(t) ==
    /\ Running(t) /\ t.kind = "summary" /\ t.pc = "fetch"
    /\ tasks' = Spawn(Retire(tasks, t), [t EXCEPT !.pc = "send"])
    /\ UNCHANGED <<tracked_events, event_rsvps, live, nextMsg, jobs, now, chanUp>>
    /\ UNCHANGED <<pollVars, quarterVars, createdVars, digestVars, checkVars, schedVars, msgVars, results>>

\* fetch_message returns the previous summary (await prev.delete()) or
\* raises NotFound, which is passed over
DigestFetch(t) ==
    /\ Running(t) /\ t.kind = "summary" /\ t.pc = "fetch"
    /\ tasks' = Spawn(Retire(tasks, t),
                      [t EXCEPT !.pc = IF t.msg \in LiveIds THEN "delete" ELSE "send"])
    /\ UNCHANGED <<tracked_events, event_rsvps, live, nextMsg, jobs, now, chanUp>>
    /\ UNCHANGED <<pollVars, quarterVars, createdVars, digestVars, checkVars, schedVars, msgVars, results>>

\* prev.delete() returns (or raises NotFound): await channel.send
DigestDelete(t) ==
    /\ Running(t) /\ t.kind = "summary" /\ t.pc = "delete"
    /\ live' = {m \in live : m.id # t.msg}
    /\ tasks' = Spawn(Retire(tasks, t), [t EXCEPT !.pc = "send"])
    /\ UNCHANGED <<tracked_events, event_rsvps, nextMsg, jobs, now, chanUp>>
    /\ UNCHANGED <<pollVars, quarterVars, createdVars, digestVars, checkVars, schedVars, msgVars, results>>

\* channel.send returns: the marker and the snapshot are stored
DigestSend(t) ==
    /\ Running(t) /\ t.kind = "summary" /\ t.pc = "send"
    /\ nextMsg <= MaxMsgs
    /\ live' = live \cup {[id |-> nextMsg, ev |-> t.ev]}
    /\ nextMsg' = nextMsg + 1
    /\ IF t.ev = "daily"
       THEN /\ daily_summaries' = Put(daily_summaries, t.ch, nextMsg)
            /\ last_posted_matches' = Put(last_posted_matches, t.poll, t.cur)
            /\ UNCHANGED <<weekly_summaries, last_posted_weekly_matches>>
       ELSE /\ weekly_summaries' = Put(weekly_summaries, t.ch, nextMsg)
            /\ last_posted_weekly_matches' = Put(last_posted_weekly_matches, t.poll, t.cur)
            /\ UNCHANGED <<daily_summaries, last_posted_matches>>
    /\ tasks' = Retire(tasks, t)
    /\ UNCHANGED <<tracked_events, event_rsvps, jobs, now, chanUp>>
    /\ UNCHANGED <<pollVars, quarterVars, createdVars, checkVars, schedVars, msgVars, results>>

\* ------------------------------------------------------------------------
\* Initial state: empty tables, nothing scheduled, nothing sent
\* ------------------------------------------------------------------------
InitEvents ==
    /\ tracked_events = <<>>
    /\ event_rsvps = {}
    /\ live = {}
    /\ nextMsg = 1
    /\ jobs = <<>>
    /\ tasks = EmptyBag
    /\ now = 0
    /\ chanUp = TRUE

InitPoll ==
    /\ options = {}
    /\ nextOptionId = 1
    /\ votes = {}
    /\ availability = {}
    /\ temp_selections = <<>>

InitQuarter ==
    /\ quarter_options = {}
    /\ nextQuarterOptionId = 1
    /\ quarter_votes = {}
    /\ quarter_availability = {}

InitCreated ==
    /\ created_events = <<>>
    /\ created_event_rsvps = {}

InitDigest ==
    /\ daily_summaries = <<>>
    /\ weekly_summaries = <<>>
    /\ last_posted_matches = <<>>
    /\ last_posted_weekly_matches = <<>>

InitCheck ==
    /\ quarter_polls = {}
    /\ nextQuarterPollId = 1
    /\ today = 0

InitSched == cron_jobs = {}

InitMessages == poll_messages = <<>>

Init ==
    /\ InitEvents
    /\ InitPoll
    /\ InitQuarter
    /\ InitCreated
    /\ InitDigest
    /\ InitCheck
    /\ InitSched
    /\ InitMessages
    /\ results = [fn |-> "none", val |-> {}]

\* ------------------------------------------------------------------------
\* events.py : specifications
\* ------------------------------------------------------------------------
CreateSteps == \E t \in BagToSet(tasks) : OnCreateSend(t)

UpdateSteps ==
    \E t \in BagToSet(tasks) :
        \/ OnUpdateFetch(t)
        \/ OnUpdateEdit(t)

DeleteSteps ==
    \E t \in BagToSet(tasks) :
        \/ OnDeleteFetch(t)
        \/ OnDeleteMsg(t)

ReminderSteps ==
    \E t \in BagToSet(tasks) :
        \/ ReminderStart(t)
        \/ ReminderFetch(t)
        \/ ReminderDelete(t)
        \/ ReminderSend(t)

Scheduler ==
    \/ \E k \in DOMAIN jobs : FireJob(k)
    \/ Tick

\* all three notifications, the reminders and a moderator
NextEvents ==
    \/ \E e \in EventIds, d \in StartDeltas : OnCreateStart(e, now + d)
    \/ \E e \in EventIds, d \in StartDeltas : OnUpdateStart(e, now + d)
    \/ \E e \in EventIds : OnDeleteStart(e)
    \/ CreateSteps
    \/ UpdateSteps
    \/ DeleteSteps
    \/ ReminderSteps
    \/ Scheduler
    \/ \E m \in live : ModeratorDelete(m)

SpecEvents == Init /\ [][NextEvents]_vars

\* 'created' and 'updated' notifications only: no 'deleted' notification and
\* nobody deletes a message by hand
NextCreateUpdate ==
    \/ \E e \in EventIds, d \in StartDeltas : OnCreateStart(e, now + d)
    \/ \E e \in EventIds, d \in StartDeltas : OnUpdateStart(e, now + d)
    \/ CreateSteps
    \/ UpdateSteps
    \/ ReminderSteps
    \/ Scheduler

SpecCreateUpdate == Init /\ [][NextCreateUpdate]_vars

\* the platform announces each event once
OnCreateFirst(e, start) ==
    /\ e \notin DOMAIN tracked_events
    /\ OnCreateStart(e, start)

\* an 'updated' notification that arrives after the announcement was posted
OnUpdateAnnounced(e, start) ==
    /\ e \in DOMAIN tracked_events
    /\ tracked_events[e].msg # Null
    /\ OnUpdateStart(e, start)

\* one 'created' notification per event, then updates and reminder runs
NextReminders ==
    \/ \E e \in EventIds, d \in StartDeltas : OnCreateFirst(e, now + d)
    \/ \E e \in EventIds, d \in StartDeltas : OnUpdateAnnounced(e, now + d)
    \/ CreateSteps
    \/ UpdateSteps
    \/ ReminderSteps
    \/ Scheduler

SpecReminders == Init /\ [][NextReminders]_vars

CreatedCreateSteps == \E t \in BagToSet(tasks) : CreateEventSend(t)

CreatedReminderSteps ==
    \E t \in BagToSet(tasks) :
        \/ CreatedReminderStart(t)
        \/ CreatedReminderFetch(t)
        \/ CreatedReminderDelete(t)
        \/ CreatedReminderSend(t)

\* one event at a time, a platform event or a created one, announced while
\* nothing else runs
AnnounceAlone(e, start) ==
    /\ tasks = EmptyBag
    /\ created_events = <<>>
    /\ OnCreateFirst(e, start)

SubmitAlone(c, u, start) ==
    /\ tasks = EmptyBag
    /\ tracked_events = <<>>
    /\ CreateEventSubmit(c, u, start)

\* the announcement is stored when at most one reminder is due at once
SendAlone(t) ==
    /\ Cardinality(ToRunNow(t.start, now)) <= 1
    /\ OnCreateSend(t)

CreatedSendAlone(t) ==
    /\ Cardinality(CreatedToRunNow(t.start, now)) <= 1
    /\ CreateEventSend(t)

\* a job fires while no coroutine is suspended
FireJobAlone(k) ==
    /\ tasks = EmptyBag
    /\ FireJob(k)

\* reminders that run one at a time; a moderator may delete messages
NextOneReminder ==
    \/ \E e \in EventIds, d \in StartDeltas : AnnounceAlone(e, now + d)
    \/ \E c \in CreatedIds, u \in Clickers, d \in StartDeltas : SubmitAlone(c, u, now + d)
    \/ \E t \in BagToSet(tasks) : SendAlone(t)
    \/ \E t \in BagToSet(tasks) : CreatedSendAlone(t)
    \/ ReminderSteps
    \/ CreatedReminderSteps
    \/ \E k \in DOMAIN jobs : FireJobAlone(k)
    \/ Tick
    \/ \E m \in live : ModeratorDelete(m)

SpecOneReminder == Init /\ [][NextOneReminder]_vars

\* one event at a time, a platform event (announced once, then updated) or
\* a created one, with every reminder that results
AnnounceOnly(e, start) ==
    /\ created_events = <<>>
    /\ OnCreateFirst(e, start)

SubmitOnly(c, u, start) ==
    /\ tracked_events = <<>>
    /\ CreateEventSubmit(c, u, start)

NextSchedule ==
    \/ \E e \in EventIds, d \in StartDeltas : AnnounceOnly(e, now + d)
    \/ \E e \in EventIds, d \in StartDeltas : OnUpdateAnnounced(e, now + d)
    \/ \E c \in CreatedIds, u \in RsvpUsers, d \in StartDeltas : SubmitOnly(c, u, now + d)
    \/ CreateSteps
    \/ CreatedCreateSteps
    \/ UpdateSteps
    \/ ReminderSteps
    \/ CreatedReminderSteps
    \/ Scheduler

SpecSchedule == Init /\ [][NextSchedule]_vars

\* events that have started are announced and deleted while users toggle
\* their interest, a moderator deletes messages and the channel comes and goes
NextDelete ==
    \/ \E e \in EventIds : OnCreateFirst(e, now)
    \/ CreateSteps
    \/ \E e \in EventIds : OnDeleteStart(e)
    \/ DeleteSteps
    \/ \E e \in EventIds, u \in Clickers : Interested(e, u)
    \/ \E m \in live : ModeratorDelete(m)
    \/ ChannelChange

SpecDelete == Init /\ [][NextDelete]_vars

\* the callbacks of EventSignupView that are suspended at their deferral
RsvpTasks == {t \in BagToSet(tasks) : t.kind = "rsvp"}

\* two presses of the same RSVP button that arrive together
DoubleClick(c, u) ==
    /\ RsvpTasks = {}
    /\ InterestedClicks(c, u, 2)

\* every toggle of the bot: one idea and its vote button, one slot of the
\* weekly grid, the RSVP buttons of an announced platform event and of an
\* event created by u1; RSVP presses of created events come in pairs
NextClicks ==
    \/ \E e \in EventIds : OnCreateFirst(e, now)
    \/ CreateSteps
    \/ \E c \in CreatedIds : CreateEventSubmit(c, "u1", now)
    \/ CreatedCreateSteps
    \/ \E e \in EventIds, u \in Clickers : Interested(e, u)
    \/ \E c \in CreatedIds, u \in Clickers : DoubleClick(c, u)
    \/ \E t \in BagToSet(tasks) : ToggleInterested(t)
    \/ \E p \in WeeklyPolls : SuggestModal(p, <<"a">>, "u1")
    \/ \E p \in WeeklyPolls, u \in Clickers : PollButton(p, 1, u)
    \/ \E p \in WeeklyPolls : OpenAvailabilityView(p, "u1")
    \/ \E p \in WeeklyPolls : HourButton(p, "u1", "Fr-19")

SpecClicks == Init /\ [][NextClicks]_vars

\* ------------------------------------------------------------------------
\* events.py : properties
\* ------------------------------------------------------------------------
\* the row of e references no message
RefCleared(e) ==
    e \in DOMAIN tracked_events =>
        tracked_events[e].msg = Null /\ tracked_events[e].ch = Null

\* the row of e references a message that fetch_message reports as not found
StaleRef(e) ==
    /\ e \in DOMAIN tracked_events
    /\ tracked_events[e].msg # Null
    /\ tracked_events[e].msg \notin LiveIds

\* the row of e references a message that still exists
RecordedLive(e) ==
    /\ e \in DOMAIN tracked_events
    /\ tracked_events[e].msg \in LiveIds

\* C1: after any sequence of 'created' and 'updated' notifications for an
\* event id, with no 'deleted' notification, at most one announcement
\* message of that event is live.
C1_AtMostOneLiveAnnouncement ==
    \A e \in EventIds : Cardinality(LiveFor(e)) <= 1

\* C2: when the row of an event references a message that fetch reports as
\* not found, the step of a lifecycle handler that learns this (the fetch of
\* 'updated' and 'deleted', the upsert of 'created') leaves the row without
\* posted_channel_id / posted_message_id.
C2_StaleRefCleared ==
    [][ /\ \A t \in BagToSet(tasks) :
              ( /\ OnUpdateFetch(t) \/ OnDeleteFetch(t)
                /\ StaleRef(t.ev)
                /\ tracked_events[t.ev].msg = t.msg )
              => RefCleared(t.ev)'
        /\ \A e \in EventIds, d \in StartDeltas :
              (OnCreateStart(e, now + d) /\ StaleRef(e)) => RefCleared(e)'
      ]_vars

\* C3: while reminders of an event run, in any interleaving, the event never
\* has a second live announcement, and once no reminder is in flight the
\* announced event has exactly one.
C3_ReminderReplaces ==
    \A e \in EventIds :
        (e \in DOMAIN tracked_events /\ tracked_events[e].msg # Null) =>
            /\ Cardinality(LiveFor(e)) <= 1
            /\ (\A t \in BagToSet(tasks) : t.ev # e) => Cardinality(LiveFor(e)) = 1

\* C10: a 'created' notification for an event whose recorded announcement
\* still exists starts no send of a new announcement.
C10_NoRepostWhenLive ==
    [][ \A e \in EventIds, d \in StartDeltas :
          (OnCreateStart(e, now + d) /\ RecordedLive(e)) =>
              CopiesIn(Task("create", e, 0, now + d, Null, "send"), tasks')
                  = CopiesIn(Task("create", e, 0, now + d, Null, "send"), tasks)
      ]_vars

\* the stored row of a platform event or of a created event
RowOf(e) == IF e \in EventIds THEN tracked_events[e] ELSE created_events[e]

\* C12: when a reminder runs on its own, its ch.send comes after the old
\* message was deleted (or was found missing), the step in which the send
\* returns stores the id of the new message in the row of the event, and
\* after it the new message is the only live message of the event.
C12_ReminderSequence ==
    [][ \A t \in BagToSet(tasks) :
          (ReminderSend(t) \/ CreatedReminderSend(t)) =>
              /\ LiveFor(t.ev) = {}
              /\ LiveFor(t.ev)' = {[id |-> nextMsg, ev |-> t.ev]}
              /\ RowOf(t.ev)'.msg = nextMsg
      ]_vars

\* a reminder replaced the first announcement and nothing is in flight
C12_Witness ==
    /\ tasks = EmptyBag
    /\ \E e \in (DOMAIN tracked_events) \cup (DOMAIN created_events) :
          /\ RowOf(e).msg > 1
          /\ LiveFor(e) = {[id |-> RowOf(e).msg, ev |-> e]}

\* the jobs of one event id that the scheduler holds
JobsOf(js, e) == {k \in DOMAIN js : k[2] = e}

\* what one call schedule_reminders(e, S) at time now has to do for offset
\* h: a job at S - h, an immediate run, or nothing
OffsetHandled(kind, e, h, S) ==
    LET run == Task(kind, e, h, 0, Null, "start")
    IN  /\ (S - h > now) =>
              /\ <<h, e>> \in DOMAIN jobs' /\ jobs'[<<h, e>>] = S - h
              /\ CopiesIn(run, tasks') = CopiesIn(run, tasks)
        /\ (S - h <= now /\ now < S) =>
              /\ <<h, e>> \notin DOMAIN jobs'
              /\ CopiesIn(run, tasks') = CopiesIn(run, tasks) + 1
        /\ (now >= S) =>
              /\ <<h, e>> \notin DOMAIN jobs'
              /\ CopiesIn(run, tasks') = CopiesIn(run, tasks)

\* C13: every call of schedule_reminders (from the update handler, from the
\* create handler once the announcement is sent, from CreateEventModal)
\* treats each offset by the three cases: S - offset > now schedules a job
\* at S - offset, S - offset <= now < S runs the reminder at once, now >= S
\* schedules and runs nothing.
C13_OffsetCases ==
    [][ /\ \A e \in EventIds, d \in StartDeltas :
              OnUpdateStart(e, now + d) =>
                  \A h \in {Hours24, Hours2} : OffsetHandled("reminder", e, h, now + d)
        /\ \A t \in BagToSet(tasks) :
              /\ OnCreateSend(t) =>
                    \A h \in {Hours24, Hours2} : OffsetHandled("reminder", t.ev, h, t.start)
              /\ CreateEventSend(t) =>
                    \A h \in {Hours24, Hours1} : OffsetHandled("created_reminder", t.ev, h, t.start)
      ]_vars

\* one call left a job for the 2h reminder and ran the 24h reminder at once
C13_Witness ==
    \E e \in EventIds :
        /\ <<Hours2, e>> \in DOMAIN jobs
        /\ <<Hours24, e>> \notin DOMAIN jobs
        /\ Running(Task("reminder", e, Hours24, 0, Null, "start"))

\* C14: after a call of schedule_reminders for an event id with start S,
\* the scheduler holds for that id only jobs of this call, one per offset
\* at most, each at S - offset; between calls the jobs of an event change
\* only by firing.
C14_RescheduleReplaces ==
    [][ /\ \A e \in EventIds, d \in StartDeltas :
              OnUpdateStart(e, now + d) =>
                  /\ JobsOf(jobs', e) \subseteq {<<h, e>> : h \in {Hours24, Hours2}}
                  /\ \A k \in JobsOf(jobs', e) : jobs'[k] = now + d - k[1] /\ jobs'[k] > now
        /\ \A t \in BagToSet(tasks) :
              /\ OnCreateSend(t) =>
                    /\ JobsOf(jobs', t.ev) \subseteq {<<h, t.ev>> : h \in {Hours24, Hours2}}
                    /\ \A k \in JobsOf(jobs', t.ev) : jobs'[k] = t.start - k[1] /\ jobs'[k] > now
              /\ CreateEventSend(t) =>
                    /\ JobsOf(jobs', t.ev) \subseteq {<<h, t.ev>> : h \in {Hours24, Hours1}}
                    /\ \A k \in JobsOf(jobs', t.ev) : jobs'[k] = t.start - k[1] /\ jobs'[k] > now
        /\ \A e \in EventIds \cup CreatedIds :
              \/ \E d \in StartDeltas : OnUpdateStart(e, now + d)
              \/ \E t \in BagToSet(tasks) : t.ev = e /\ (OnCreateSend(t) \/ CreateEventSend(t))
              \/ /\ JobsOf(jobs', e) \subseteq JobsOf(jobs, e)
                 /\ \A k \in JobsOf(jobs', e) : jobs'[k] = jobs[k]
      ]_vars

\* an update re-scheduled an announced event: the 24h job of the earlier
\* call is gone, the 2h job is the one of the new start time
C14_Witness ==
    \E e \in DOMAIN tracked_events :
        /\ \E t \in BagToSet(tasks) : t.kind = "update" /\ t.ev = e
        /\ JobsOf(jobs, e) = {<<Hours2, e>>}
        /\ jobs[<<Hours2, e>>] = tracked_events[e].start - Hours2
        /\ now > 0

DeleteTasks(bag, e) ==
    BagCardinality([t \in {x \in BagToSet(bag) : x.kind = "delete" /\ x.ev = e} |-> bag[t]])

\* C15: every step that ends the handling of an 'event deleted'
\* notification (at once when there is no row or no channel, after the
\* fetch failed, after the delete returned or failed) leaves no
\* tracked_events row and no event_rsvps row of the event.
C15_DeleteRemovesRows ==
    [][ \A e \in EventIds :
          ( \/ OnDeleteStart(e) /\ DeleteTasks(tasks', e) = DeleteTasks(tasks, e)
            \/ DeleteTasks(tasks', e) < DeleteTasks(tasks, e) )
          => /\ e \notin DOMAIN tracked_events'
             /\ \A r \in event_rsvps' : r[1] # e
      ]_vars

\* the channel was missing when the notification was handled: the
\* announcement is still there, the rows are gone
C15_Witness ==
    \E e \in EventIds :
        /\ ~chanUp
        /\ tasks = EmptyBag
        /\ LiveFor(e) # {}
        /\ e \notin DOMAIN tracked_events
        /\ event_rsvps = {}

\* C19: every toggle acts on the existence check of its own step: a vote
\* click, an RSVP click and a tentative-slot click each flip their row or
\* slot (never an insert of a row that is there, never a delete of a row
\* that is not), and once two presses of one RSVP button that arrived
\* together are both handled, the RSVP rows are what they were before the
\* presses (the creator's row).
C19_TogglesAreAtomic ==
    /\ [](RsvpTasks = {} =>
             created_event_rsvps = {<<c, "u1">> : c \in DOMAIN created_events})
    /\ [][ /\ \A t \in BagToSet(tasks) :
                 ToggleInterested(t) =>
                     (<<t.ev, t.user>> \in created_event_rsvps')
                         # (<<t.ev, t.user>> \in created_event_rsvps)
           /\ \A e \in EventIds, u \in Clickers :
                 Interested(e, u) => (<<e, u>> \in event_rsvps') # (<<e, u>> \in event_rsvps)
           /\ \A p \in WeeklyPolls, u \in Clickers :
                 PollButton(p, 1, u) => (<<p, 1, u>> \in votes') # (<<p, 1, u>> \in votes)
           /\ \A p \in WeeklyPolls :
                 HourButton(p, "u1", "Fr-19") =>
                     ("Fr-19" \in temp_selections'[<<p, "u1">>])
                         # ("Fr-19" \in temp_selections[<<p, "u1">>])
         ]_vars

\* one of two presses that arrived together has been handled (the creator's
\* row is gone), the other one is still suspended
C19_Witness ==
    \E t \in RsvpTasks :
        /\ t.user = "u1"
        /\ tasks[t] = 1
        /\ <<t.ev, "u1">> \notin created_event_rsvps

\* C11: handling an 'updated' notification for an event whose recorded
\* announcement no longer exists starts no run of the reminder coroutine
\* (whose ch.send posts a new announcement), whatever the start time.
C11_UpdateDoesNotRepost ==
    [][ \A e \in EventIds, d \in StartDeltas :
          (OnUpdateStart(e, now + d) /\ StaleRef(e)) =>
              \A h \in ReminderOffsets :
                  CopiesIn(Task("reminder", e, h, 0, Null, "start"), tasks')
                      = CopiesIn(Task("reminder", e, h, 0, Null, "start"), tasks)
      ]_vars

\* ------------------------------------------------------------------------
\* bot.py : the matching and rendering functions applied to stored polls
\* ------------------------------------------------------------------------
MatchTexts == {<<"a">>, <<"b">>}

\* a poll with 1..MaxOptions options and any votes and availability rows
InitMatch ==
    /\ InitEvents
    /\ InitQuarter
    /\ InitCreated
    /\ InitDigest
    /\ InitCheck
    /\ InitSched
    /\ InitMessages
    /\ results = [fn |-> "none", val |-> {}]
    /\ \E p \in PollIds, n \in 1..MaxOptions :
         /\ \E texts \in [1..n -> MatchTexts] :
               options = {[id |-> i, poll |-> p, text |-> texts[i], author |-> "u1"] : i \in 1..n}
         /\ nextOptionId = n + 1
         /\ votes \in SUBSET ({p} \X (1..n) \X Users)
         /\ availability \in SUBSET ({p} \X Users \X SlotsOf(p))
    /\ temp_selections = <<>>

ComputeMatches(p) ==
    /\ results' = Result("compute_matches",
                         [poll |-> p, matches |-> compute_matches_for_poll_from_db(p)])
    /\ UNCHANGED <<evVars, pollVars, quarterVars, createdVars, digestVars, checkVars, schedVars, msgVars>>

GeneratePollEmbed(p) ==
    /\ p \in WeeklyPolls
    /\ results' = Result("poll_embed", [poll |-> p, fields |-> generate_poll_embed_from_db(p)])
    /\ UNCHANGED <<evVars, pollVars, quarterVars, createdVars, digestVars, checkVars, schedVars, msgVars>>

GenerateQuarterlyPollEmbed(p) ==
    /\ p \in QuarterlyPolls
    /\ results' = Result("quarterly_poll_embed",
                         [poll |-> p, fields |-> generate_quarterly_poll_embed_from_db(p)])
    /\ UNCHANGED <<evVars, pollVars, quarterVars, createdVars, digestVars, checkVars, schedVars, msgVars>>

NextMatch ==
    \/ \E p \in PollIds : ComputeMatches(p)
    \/ \E p \in PollIds : GeneratePollEmbed(p)
    \/ \E p \in PollIds : GenerateQuarterlyPollEmbed(p)

SpecMatch == InitMatch /\ [][NextMatch]_vars

\* ------------------------------------------------------------------------
\* bot.py : ideas, votes and deletions
\* ------------------------------------------------------------------------
NextVote ==
    \/ \E p \in PollIds, raw \in RawIdeas, u \in Clickers : SuggestModal(p, raw, u)
    \/ \E p \in PollIds, oid \in 1..MaxOptions, u \in Clickers : PollButton(p, oid, u)
    \/ \E p \in PollIds, oid \in 1..MaxOptions, u \in Clickers : QuarterlyPollButton(p, oid, u)
    \/ \E p \in PollIds, oid \in 1..MaxOptions, owner \in Clickers, u \in Clickers :
          DeleteOwnOption(p, oid, owner, u)

SpecVote == Init /\ [][NextVote]_vars

\* the three vote buttons, on polls whose ideas were written by one user
NextToggle ==
    \/ \E p \in PollIds : SuggestModal(p, <<"a">>, "u1")
    \/ \E p \in PollIds, oid \in 1..MaxOptions, u \in Clickers : PollButton(p, oid, u)
    \/ \E p \in PollIds, oid \in 1..MaxOptions, u \in Clickers : QuarterlyPollButton(p, oid, u)
    \/ \E p \in QuarterPollIds : QuarterIdeaModal(p, <<"a">>, "u1")
    \/ \E p \in QuarterPollIds, oid \in 1..MaxQuarterOptions, u \in Clickers :
          QuarterVoteButton(p, oid, u)

SpecToggle == Init /\ [][NextToggle]_vars

\* ------------------------------------------------------------------------
\* bot.py : availability
\* ------------------------------------------------------------------------
NextAvail ==
    \/ \E p \in PollIds, u \in Clickers : OpenAvailabilityView(p, u)
    \/ \E p \in PollIds, u \in Clickers, sl \in WeeklySlots : HourButton(p, u, sl)
    \/ \E p \in PollIds, u \in Clickers : SubmitButton(p, u)
    \/ \E p \in PollIds, u \in Clickers : RemovePersistedButton(p, u)
    \/ \E p \in PollIds, u \in DayPickers, d \in QuarterlyDays : DayAvailButton(p, u, d)
    \/ \E p \in PollIds, u \in DayPickers : QuarterlySubmitButton(p, u)

SpecAvail == Init /\ [][NextAvail]_vars

\* ------------------------------------------------------------------------
\* quarter_poll.py : specification
\* ------------------------------------------------------------------------
NextQuarter ==
    \/ \E p \in QuarterPollIds, raw \in RawIdeas, u \in Clickers : QuarterIdeaModal(p, raw, u)
    \/ \E p \in QuarterPollIds, oid \in 1..MaxQuarterOptions, u \in Clickers :
          QuarterVoteButton(p, oid, u)
    \/ \E p \in QuarterPollIds, u \in Clickers, toks \in SUBSET DayTokens :
          QuarterPickDaysModal(p, u, toks)

SpecQuarter == Init /\ [][NextQuarter]_vars

\* build_quarter_embed as the caller receives it: the Embed is constructed
\* with timestamp=datetime.now(timezone.utc), then the fields are added
BuildQuarterEmbed(p) ==
    /\ results' = Result("quarter_embed",
                         [poll |-> p, timestamp |-> now, fields |-> build_quarter_embed(p)])
    /\ UNCHANGED <<evVars, pollVars, quarterVars, createdVars, digestVars, checkVars, schedVars, msgVars>>

\* polls that are written to (ideas, votes, days) and rendered while the
\* clock advances
NextRender ==
    \/ \E p \in QuarterPollIds, raw \in RawIdeas : QuarterIdeaModal(p, raw, "u1")
    \/ \E p \in QuarterPollIds, u \in Clickers : QuarterVoteButton(p, 1, u)
    \/ \E p \in QuarterPollIds, tok \in DayTokens : QuarterPickDaysModal(p, "u1", {tok})
    \/ \E p \in WeeklyPolls : SuggestModal(p, <<"a">>, "u1")
    \/ \E p \in WeeklyPolls, u \in Clickers : PollButton(p, 1, u)
    \/ \E p \in PollIds : GeneratePollEmbed(p)
    \/ \E p \in PollIds : GenerateQuarterlyPollEmbed(p)
    \/ \E p \in QuarterPollIds : BuildQuarterEmbed(p)
    \/ Tick

SpecRender == Init /\ [][NextRender]_vars

\* C20: rendering a poll writes nothing to the stored tables or to the
\* tentative map, and a rendering that follows a rendering of the same poll
\* with no write in between (every write replaces the last result) returns
\* the same output.
C20_RenderingIsPure ==
    [][ /\ \A p \in PollIds :
              GeneratePollEmbed(p) =>
                  /\ UNCHANGED <<pollVars, quarterVars>>
                  /\ (results.fn = "poll_embed" /\ results.val.poll = p) => results' = results
        /\ \A p \in PollIds :
              GenerateQuarterlyPollEmbed(p) =>
                  /\ UNCHANGED <<pollVars, quarterVars>>
                  /\ (results.fn = "quarterly_poll_embed" /\ results.val.poll = p)
                         => results' = results
        /\ \A p \in QuarterPollIds :
              BuildQuarterEmbed(p) =>
                  /\ UNCHANGED <<pollVars, quarterVars>>
                  /\ (results.fn = "quarter_embed" /\ results.val.poll = p) => results' = results
      ]_vars

\* ------------------------------------------------------------------------
\* Matching : properties
\* ------------------------------------------------------------------------
\* the voters of an option, read from the rows of votes
RowVoters(p, oid) == {u \in Users : <<p, oid, u>> \in votes}

\* the voters of an option that marked the slot, read from the rows
RowAvailable(p, oid, sl) == {u \in RowVoters(p, oid) : <<p, u, sl>> \in availability}

\* the slots of an option shared by at least two of its voters
Qualifying(p, oid) == {sl \in SlotsOf(p) : Cardinality(RowAvailable(p, oid, sl)) >= 2}

\* the qualifying slots with the greatest number of participants
Maximal(p, oid) ==
    {sl \in Qualifying(p, oid) :
        \A x \in Qualifying(p, oid) :
            Cardinality(RowAvailable(p, oid, x)) <= Cardinality(RowAvailable(p, oid, sl))}

C5_MaxOnlyTiesAll ==
    results.fn = "compute_matches" =>
        LET p == results.val.poll
            m == results.val.matches
        IN  \A o \in options :
                (o.poll = p /\ Maximal(p, o.id) # {}) =>
                    (IF o.text \in DOMAIN m THEN {i.slot : i \in m[o.text]} ELSE {})
                        = Maximal(p, o.id)

\* C6: wherever best days are rendered, a day is listed for an option only
\* if at least 2 voters of that option are available on it (here: the
\* fields of build_quarter_embed).
C6_AtLeastTwoAvailable ==
    \A p \in QuarterPollIds :
        \A f \in build_quarter_embed(p) :
            \A i \in f.best :
                Cardinality({u \in Users : /\ <<p, f.id, u>> \in quarter_votes
                                           /\ <<p, u, i.slot>> \in quarter_availability}) >= 2

\* ------------------------------------------------------------------------
\* Votes, availability and options : properties
\* ------------------------------------------------------------------------
\* C7: a click on a vote button flips the Vote row of its (poll, option,
\* user) and nothing else, and the same click repeated right after it gives
\* back the rows there were before the first click.
C7_ToggleTwiceRestores ==
    [][ /\ \A p \in PollIds, o \in options, u \in Clickers :
              (PollButton(p, o.id, u) \/ QuarterlyPollButton(p, o.id, u)) =>
                  /\ (<<p, o.id, u>> \in votes') # (<<p, o.id, u>> \in votes)
                  /\ votes' \ {<<p, o.id, u>>} = votes \ {<<p, o.id, u>>}
                  /\ ToggleVote(votes', p, o.id, u) = votes
        /\ \A p \in QuarterPollIds, o \in quarter_options, u \in Clickers :
              QuarterVoteButton(p, o.id, u) =>
                  /\ (<<p, o.id, u>> \in quarter_votes') # (<<p, o.id, u>> \in quarter_votes)
                  /\ quarter_votes' \ {<<p, o.id, u>>} = quarter_votes \ {<<p, o.id, u>>}
                  /\ QuarterToggleVote(quarter_votes', p, o.id, u) = quarter_votes
      ]_vars

\* a vote that was cast has been taken back by a second click
C7_Witness ==
    /\ results.fn \in {"vote_removed", "quarter_vote_removed"}
    /\ nextOptionId > 1
    /\ nextQuarterOptionId > 1

\* C8: after a user submits a non-empty set of days, the days persisted for
\* that user and poll are exactly the submitted ones, whatever was
\* persisted before (here: QuarterPickDaysModal).
C8_SubmitReplaces ==
    [][ \A p \in QuarterPollIds, u \in Clickers, toks \in SUBSET DayTokens :
          (QuarterPickDaysModal(p, u, toks) /\ ParsedDays(toks) # {}) =>
              QuarterDaysOf(quarter_availability', p, u) = ParsedDays(toks)
      ]_vars

\* a staging click of (p, u) on sl: the slot is toggled in the tentative set
\* of (p, u), every other tentative set and the availability table are
\* unchanged
StagedOnly(p, u, sl) ==
    LET before == IF <<p, u>> \in DOMAIN temp_selections THEN temp_selections[<<p, u>>] ELSE {}
    IN  /\ availability' = availability
        /\ DOMAIN temp_selections' = DOMAIN temp_selections \cup {<<p, u>>}
        /\ (sl \in temp_selections'[<<p, u>>]) # (sl \in before)
        /\ temp_selections'[<<p, u>>] \ {sl} = before \ {sl}
        /\ \A k \in DOMAIN temp_selections \ {<<p, u>>} :
              temp_selections'[k] = temp_selections[k]

\* C17: picking an hour (weekly view) or a day (quarterly view) toggles the
\* slot in the tentative set of that (poll, user) and inserts or deletes no
\* availability row.
C17_StagingIsTentative ==
    [][ /\ \A p \in PollIds, u \in Clickers, sl \in WeeklySlots :
              HourButton(p, u, sl) => StagedOnly(p, u, sl)
        /\ \A p \in PollIds, u \in Clickers, day \in QuarterlyDays :
              DayAvailButton(p, u, day) => StagedOnly(p, u, day)
      ]_vars

\* a user with persisted slots has unselected one of them without
\* submitting: the row is still there
C17_Witness ==
    /\ results.fn \in {"slot_staged", "day_staged"}
    /\ \E r \in availability :
          /\ <<r[1], r[2]>> \in DOMAIN temp_selections
          /\ r[3] \notin temp_selections[<<r[1], r[2]>>]

\* C18: a click on a vote button changes no Vote row other than the one of
\* its (poll, option, user): votes of other users and votes of the same
\* user for other options stay as they are, in every interleaving of the
\* clicks of two users.
C18_ToggleTouchesOneRow ==
    [][ \A p \in PollIds, oid \in 1..MaxOptions, u \in Clickers :
          (PollButton(p, oid, u) \/ QuarterlyPollButton(p, oid, u)) =>
              \A v \in votes \cup votes' :
                  v # <<p, oid, u>> => (v \in votes <=> v \in votes')
      ]_vars

\* a user holds votes for two options of a poll another user voted in too,
\* and a vote of that poll was just taken back
C18_Witness ==
    /\ results.fn = "vote_removed"
    /\ \E p \in PollIds, u \in Clickers, w \in Clickers :
          /\ u # w
          /\ Cardinality({v \in votes : v[1] = p /\ v[3] = u}) >= 2
          /\ \E v \in votes : v[1] = p /\ v[3] = w

\* C9: when the author deletes an option, the option row is gone and no
\* vote row with that option_id remains.
C9_DeleteCascades ==
    [][ \A o \in options :
          DeleteOwnOption(o.poll, o.id, o.author, o.author) =>
              /\ \A x \in options' : x.id # o.id
              /\ \A v \in votes' : v[2] # o.id
      ]_vars

\* C16: a press of the delete button of an option by a user who is not its
\* author is rejected and changes no option row and no vote row; a press
\* by the author removes the option row and exactly the vote rows of the
\* option.
C16_DeleteOnlyByAuthor ==
    [][ \A o \in options, u \in Clickers :
          DeleteOwnOption(o.poll, o.id, o.author, u) =>
              IF u # o.author
              THEN /\ options' = options
                   /\ votes' = votes
                   /\ results'.fn = "delete_rejected"
              ELSE /\ options' = options \ {o}
                   /\ votes' = {v \in votes : v[2] # o.id}
                   /\ results'.fn = "option_deleted"
      ]_vars

\* another user's press on an option that has votes was rejected
C16_Witness ==
    /\ results.fn = "delete_rejected"
    /\ \E o \in options : \E v \in votes : v[2] = o.id

\* an option that had votes was deleted while votes of another option stay
C9_Witness ==
    /\ results.fn = "option_deleted"
    /\ results.val # {}
    /\ votes # {}

\* ------------------------------------------------------------------------
\* Idea forms : specification and property
\* ------------------------------------------------------------------------
\* ideas typed into the form of bot.py and into the form of quarter_poll.py
NextIdeas ==
    \/ \E p \in PollIds, raw \in RawIdeas, u \in Clickers : SuggestModal(p, raw, u)
    \/ \E p \in QuarterPollIds, raw \in RawIdeas, u \in Clickers : QuarterIdeaModal(p, raw, u)

SpecIdeas == Init /\ [][NextIdeas]_vars

\* C24: an idea whose text is empty after stripping inserts nothing, in the
\* form of bot.py and in the form of quarter_poll.py; any other text adds
\* exactly one option with that text, whether or not the poll has an option
\* with the same text.
C24_EmptyIdeaRejected ==
    [][ /\ \A p \in PollIds, raw \in RawIdeas, u \in Clickers :
              SuggestModal(p, raw, u) =>
                  IF Strip(raw) = <<>>
                  THEN options' = options
                  ELSE \E o \in options' \ options :
                          /\ o.poll = p /\ o.text = Strip(raw) /\ o.author = u
                          /\ options' = options \cup {o}
        /\ \A p \in QuarterPollIds, raw \in RawIdeas, u \in Clickers :
              QuarterIdeaModal(p, raw, u) =>
                  IF Strip(raw) = <<>>
                  THEN quarter_options' = quarter_options
                  ELSE \E o \in quarter_options' \ quarter_options :
                          /\ o.poll = p /\ o.title = Strip(raw) /\ o.author = u
                          /\ quarter_options' = quarter_options \cup {o}
      ]_vars

\* ------------------------------------------------------------------------
\* Availability : submit and clear
\* ------------------------------------------------------------------------
\* C27: when a submit of (poll, user) completes, the persisted rows of that
\* user and poll are the tentative set as it was when submit was pressed,
\* and the tentative map has no entry for (poll, user) any more.
C27_SubmitPersistsAndClears ==
    [][ \A p \in PollIds, u \in Clickers :
          (SubmitButton(p, u) \/ QuarterlySubmitButton(p, u)) =>
              /\ PersistedSlots(availability', p, u) = TempOf(temp_selections, p, u)
              /\ <<p, u>> \notin DOMAIN temp_selections'
      ]_vars

\* C28: after the stored availability of (poll, user) is removed, that user
\* has no persisted row and no tentative slot in that poll, and the rows
\* and tentative sets of every other user and every other poll are what
\* they were.
C28_ClearForgetsOneUser ==
    [][ \A p \in PollIds, u \in Clickers :
          RemovePersistedButton(p, u) =>
              /\ PersistedSlots(availability', p, u) = {}
              /\ TempOf(temp_selections', p, u) = {}
              /\ \A r \in availability \cup availability' :
                    (r[1] # p \/ r[2] # u) => (r \in availability <=> r \in availability')
              /\ \A k \in (DOMAIN temp_selections \cup DOMAIN temp_selections') \ {<<p, u>>} :
                    /\ k \in DOMAIN temp_selections /\ k \in DOMAIN temp_selections'
                    /\ temp_selections'[k] = temp_selections[k]
      ]_vars

\* a removal has run while rows and tentative slots of others exist, in the
\* weekly poll and in the quarterly one
C28_Witness ==
    /\ results.fn = "availability_removed"
    /\ \E r \in availability : r[1] \in WeeklyPolls
    /\ \E r \in availability : r[1] \in QuarterlyPolls
    /\ \E k \in DOMAIN temp_selections : k[1] \in WeeklyPolls /\ temp_selections[k] # {}

\* ------------------------------------------------------------------------
\* Rendering against matching
\* ------------------------------------------------------------------------
\* C29: in a rendered weekly poll embed, the best slots and participants of
\* every option are the entry compute_matches returns for that option (the
\* entry under its text; nothing shown when there is no entry), also when
\* two options of the poll have the same text.
C29_EmbedShowsMatches ==
    (results.fn = "poll_embed") =>
        LET p == results.val.poll
            m == compute_matches_for_poll_from_db(p)
        IN  \A f \in results.val.fields :
                f.best = (IF f.name \in DOMAIN m THEN m[f.name] ELSE {})

\* ------------------------------------------------------------------------
\* Forms with dates : specification and property
\* ------------------------------------------------------------------------
\* the event form with parsable and with unparsable fields, the day form of
\* quarter_poll.py with any tokens
NextForms ==
    \/ \E c \in CreatedIds, u \in Clickers, d \in StartDeltas : CreateEventSubmit(c, u, now + d)
    \/ CreatedCreateSteps
    \/ \E u \in Clickers : CreateEventUnparsed(u)
    \/ \E p \in QuarterPollIds, u \in Clickers, toks \in SUBSET DayTokens :
          QuarterPickDaysModal(p, u, toks)

SpecForms == Init /\ [][NextForms]_vars

\* C21: a form submission that contains a date or time that cannot be
\* parsed changes nothing: no event row, no RSVP row, no availability row
\* and no reminder job.
C21_UnparsedInputAborts ==
    [][ /\ \A u \in Clickers :
              CreateEventUnparsed(u) =>
                  UNCHANGED <<created_events, created_event_rsvps, jobs, tasks,
                              availability, quarter_availability>>
        /\ \A p \in QuarterPollIds, u \in Clickers, toks \in SUBSET DayTokens :
              (QuarterPickDaysModal(p, u, toks) /\ \E tok \in toks : ParseDay(tok) = "") =>
                  UNCHANGED <<created_events, created_event_rsvps, jobs, tasks,
                              availability, quarter_availability>>
      ]_vars

\* ------------------------------------------------------------------------
\* Digests : specifications and properties
\* ------------------------------------------------------------------------
DigestChannels == {"general"}

\* the digests that are suspended at an await
DigestTasks(kind) == {t \in BagToSet(tasks) : t.kind = "summary" /\ t.ev = kind}

\* a digest run that starts when the previous run of its kind has finished
DigestRun(kind, ch, fresh) ==
    /\ DigestTasks(kind) = {}
    /\ DigestStart(kind, ch, fresh)

DigestSteps ==
    \E t \in BagToSet(tasks) :
        \/ DigestFetch(t)
        \/ DigestDelete(t)
        \/ DigestSend(t)

\* the ideas of the poll a digest reports on, in the order they were added
DigestIdeas == {<< <<"a">> >>, << <<"a">>, <<"b">> >>, << <<"a">>, <<"a">> >>}

\* a poll whose voters have marked their slots (everybody every slot, but
\* for u3, who marked one) and whose first idea u3 voted for
InitDigestPoll ==
    /\ InitEvents
    /\ InitQuarter
    /\ InitCreated
    /\ InitDigest
    /\ InitCheck
    /\ InitSched
    /\ InitMessages
    /\ results = [fn |-> "none", val |-> {}]
    /\ \E p \in PollIds, texts \in DigestIdeas :
         /\ options = {[id |-> i, poll |-> p, text |-> texts[i], author |-> "u1"] :
                          i \in 1..Len(texts)}
         /\ nextOptionId = Len(texts) + 1
         /\ availability =
               {r \in {p} \X Users \X SlotsOf(p) :
                   r[2] = "u3" => r[3] = (CHOOSE sl \in SlotsOf(p) : TRUE)}
         /\ votes = {<<p, 1, "u3">>}
    /\ temp_selections = <<>>

\* votes come and go between digest runs
NextDigest ==
    \/ \E p \in PollIds, oid \in 1..MaxOptions, u \in Clickers : PollButton(p, oid, u)
    \/ \E p \in PollIds, oid \in 1..MaxOptions, u \in Clickers : QuarterlyPollButton(p, oid, u)
    \/ \E kind \in DigestKinds, ch \in DigestChannels, fresh \in {{}, options} :
          DigestRun(kind, ch, fresh)
    \/ DigestSteps

SpecDigest == InitDigestPoll /\ [][NextDigest]_vars

\* the (option text, slot, participants) tuples of a matches mapping
MatchTuples(m) == UNION {{<<k, i.slot, i.users>> : i \in m[k]} : k \in DOMAIN m}

NextDigestPosts ==
    \/ \E kind \in DigestKinds, ch \in DigestChannels : DigestRun(kind, ch, options)
    \/ DigestSteps
    \/ \E m \in live : ModeratorDelete(m)
    \/ \E p \in PollIds, u \in Clickers : PollButton(p, 1, u)
    \/ \E p \in PollIds, u \in Clickers : QuarterlyPollButton(p, 1, u)

SpecDigestPosts == InitDigestPoll /\ [][NextDigestPosts]_vars

Week == 7

\* the quarter starts of a year: the first of the months 1, 4, 7 and 10
QuartersPerYear == 4

\* the days of a quarter and the last day of the calendar, scaled down
QuarterLen == 9

MaxDay == 30

YearOf(d) == d \div (QuartersPerYear * QuarterLen)

\* date(year, m, 1) for m in (1, 4, 7, 10)
QuarterStartsOf(year) ==
    {(QuartersPerYear * year + m) * QuarterLen : m \in 0..(QuartersPerYear - 1)}

\* candidates: the quarter starts of today's year and of the next one
Candidates(d) == QuarterStartsOf(YearOf(d)) \cup QuarterStartsOf(YearOf(d) + 1)

\* SELECT id FROM quarter_polls WHERE quarter_start = ?, answering nothing
ExistingNone(q) == {}

\* SELECT id FROM quarter_polls WHERE quarter_start = ?
Existing(q) == {r \in quarter_polls : r.quarter_start = q}

\* the quarter starts check_and_post creates a poll for when it runs on d
DueQuarters(d) == {q \in Candidates(d) : q - Week = d /\ Existing(q) = {}}

PostTask(id) == [kind |-> "quarter_post", ev |-> "quarter", poll |-> id, pc |-> "send"]

\* check_and_post, whole: it is a plain function, nothing interleaves with it.
\* Two quarter starts are more than a week apart, so at most one is due.
CheckAndPost ==
    /\ IF DueQuarters(today) = {}
       THEN /\ UNCHANGED <<quarter_polls, nextQuarterPollId, tasks>>
            /\ results' = [fn |-> "check_and_post",
                           val |-> {q \in Candidates(today) : q - Week = today}]
       ELSE \E q \in DueQuarters(today) :
              /\ NumTasks < MaxTasks
              /\ quarter_polls' = quarter_polls \cup
                    {[id |-> nextQuarterPollId, quarter_start |-> q, msg |-> Null]}
              /\ nextQuarterPollId' = nextQuarterPollId + 1
              /\ tasks' = Spawn(tasks, PostTask(nextQuarterPollId))
              /\ results' = [fn |-> "check_and_post", val |-> {}]
    /\ UNCHANGED <<tracked_events, event_rsvps, live, nextMsg, jobs, now, chanUp, today>>
    /\ UNCHANGED <<pollVars, quarterVars, createdVars, digestVars, schedVars, msgVars>>

\* _post when bot.get_channel answers None: it returns
PostNoChannel(t) ==
    /\ Running(t) /\ t.kind = "quarter_post"
    /\ tasks' = Retire(tasks, t)
    /\ UNCHANGED <<tracked_events, event_rsvps, live, nextMsg, jobs, now, chanUp>>
    /\ UNCHANGED <<pollVars, quarterVars, createdVars, digestVars, checkVars, schedVars, msgVars, results>>

\* _post: sent = await ch.send(...), then UPDATE quarter_polls SET posted_...
PostSend(t) ==
    /\ Running(t) /\ t.kind = "quarter_post"
    /\ nextMsg <= MaxMsgs
    /\ live' = live \cup {[id |-> nextMsg, ev |-> t.ev, poll |-> t.poll]}
    /\ nextMsg' = nextMsg + 1
    /\ quarter_polls' = {IF r.id = t.poll THEN [r EXCEPT !.msg = nextMsg] ELSE r
                            : r \in quarter_polls}
    /\ tasks' = Retire(tasks, t)
    /\ UNCHANGED <<tracked_events, event_rsvps, jobs, now, chanUp>>
    /\ UNCHANGED <<nextQuarterPollId, today>>
    /\ UNCHANGED <<pollVars, quarterVars, createdVars, digestVars, schedVars, msgVars, results>>

\* midnight (UTC)
NextDay ==
    /\ today < MaxDay
    /\ today' = today + 1
    /\ UNCHANGED <<quarter_polls, nextQuarterPollId>>
    /\ UNCHANGED <<evVars, pollVars, quarterVars, createdVars, digestVars, schedVars, msgVars, results>>

\* the process is restarted: the database stays, the pending coroutines are lost
RestartBot ==
    /\ tasks' = EmptyBag
    /\ UNCHANGED <<tracked_events, event_rsvps, live, nextMsg, jobs, now, chanUp>>
    /\ UNCHANGED <<pollVars, quarterVars, createdVars, digestVars, checkVars, schedVars, msgVars, results>>

\* the check runs any number of times a day, or not at all on some days
NextCheck ==
    \/ CheckAndPost
    \/ \E t \in BagToSet(tasks) : PostNoChannel(t)
    \/ \E t \in BagToSet(tasks) : PostSend(t)
    \/ NextDay
    \/ RestartBot

SpecCheck == Init /\ [][NextCheck]_vars

\* C25: however often the check runs, a quarter start has at most one row
\* of quarter_polls and at most one posted poll message, and a row is only
\* created on the day one week before its quarter start.
C25_OnePollPerQuarter ==
    /\ [](\A q \in 0..(MaxDay + Week) :
             /\ Cardinality({r \in quarter_polls : r.quarter_start = q}) <= 1
             /\ Cardinality({m \in live : \E r \in quarter_polls :
                                 r.quarter_start = q /\ r.id = m.poll}) <= 1)
    /\ [][ \A r \in quarter_polls' :
              (\A old \in quarter_polls : old.id # r.id) =>
                  /\ r.quarter_start - Week = today
                  /\ r.quarter_start % QuarterLen = 0
         ]_vars

\* the check ran again on the post date of a quarter whose poll is posted,
\* and the poll of an earlier quarter is posted too
C25_Witness ==
    /\ results.fn = "check_and_post"
    /\ \E q \in results.val : \E r \in quarter_polls :
          /\ r.quarter_start = q /\ r.msg # Null
          /\ q - Week = today
    /\ Cardinality(live) >= 2

\* ------------------------------------------------------------------------
\* exceptions of network calls and database operations
\* ------------------------------------------------------------------------
\* on_guild_scheduled_event_create: ch.send raises. The handler has no
\* try/except, the exception leaves it: the row stays without posted ids
\* and schedule_reminders_for_event is not reached.
OnCreateSendRaises(t) ==
    /\ Running(t) /\ t.kind = "create" /\ t.pc = "send"
    /\ tasks' = Retire(tasks, t)
    /\ results' = [fn |-> "raised", val |-> "on_guild_scheduled_event_create"]
    /\ UNCHANGED <<tracked_events, event_rsvps, live, nextMsg, jobs, now, chanUp>>
    /\ UNCHANGED <<pollVars, quarterVars, createdVars, digestVars, checkVars, schedVars, msgVars>>

\* reminder_coro: fetch_message raises something else than NotFound; the
\* except Exception: pass around the fetch and the delete swallows it
ReminderFetchRaises(t) ==
    /\ Running(t) /\ t.kind = "reminder" /\ t.pc = "fetch"
    /\ tasks' = Spawn(Retire(tasks, t), [t EXCEPT !.pc = "send"])
    /\ results' = [fn |-> "caught", val |-> "reminder_coro"]
    /\ UNCHANGED <<tracked_events, event_rsvps, live, nextMsg, jobs, now, chanUp>>
    /\ UNCHANGED <<pollVars, quarterVars, createdVars, digestVars, checkVars, schedVars, msgVars>>

\* reminder_coro: ch.send raises, outside the try: the exception leaves the
\* coroutine, the posted ids keep naming the message it deleted
ReminderSendRaises(t) ==
    /\ Running(t) /\ t.kind = "reminder" /\ t.pc = "send"
    /\ tasks' = Retire(tasks, t)
    /\ results' = [fn |-> "raised", val |-> "reminder_coro"]
    /\ UNCHANGED <<tracked_events, event_rsvps, live, nextMsg, jobs, now, chanUp>>
    /\ UNCHANGED <<pollVars, quarterVars, createdVars, digestVars, checkVars, schedVars, msgVars>>

\* PollButton.callback: the SELECT of db_execute raises (the database is
\* locked); it is not inside the try, the exception leaves the callback
PollButtonDbRaises(p, oid, u) ==
    /\ p \in WeeklyPolls
    /\ \E o \in get_options(p) : o.id = oid
    /\ results' = [fn |-> "raised", val |-> "PollButton.callback"]
    /\ UNCHANGED <<evVars, pollVars, quarterVars, createdVars, digestVars, checkVars, schedVars, msgVars>>

\* PollButton.callback: both edit_message calls raise, inside the try: the
\* vote is toggled, the exceptions are swallowed
PollButtonEditRaises(p, oid, u) ==
    /\ p \in WeeklyPolls
    /\ \E o \in get_options(p) : o.id = oid
    /\ votes' = ToggleVote(votes, p, oid, u)
    /\ results' = [fn |-> "caught", val |-> "PollButton.callback"]
    /\ UNCHANGED <<options, nextOptionId, availability, temp_selections>>
    /\ UNCHANGED <<evVars, quarterVars, createdVars, digestVars, checkVars, schedVars, msgVars>>

\* an event is announced and reminded of while users vote, and any network
\* call or database operation of the three handlers may raise
NextFailures ==
    \/ \E e \in EventIds, d \in StartDeltas : OnCreateFirst(e, now + d)
    \/ CreateSteps
    \/ ReminderSteps
    \/ Scheduler
    \/ \E t \in BagToSet(tasks) : OnCreateSendRaises(t)
    \/ \E t \in BagToSet(tasks) : ReminderFetchRaises(t)
    \/ \E t \in BagToSet(tasks) : ReminderSendRaises(t)
    \/ \E p \in WeeklyPolls : SuggestModal(p, <<"a">>, "u1")
    \/ \E p \in WeeklyPolls, u \in Clickers : PollButton(p, 1, u)
    \/ \E p \in WeeklyPolls, u \in Clickers : PollButtonDbRaises(p, 1, u)
    \/ \E p \in WeeklyPolls, u \in Clickers : PollButtonEditRaises(p, 1, u)

SpecFailures == Init /\ [][NextFailures]_vars

\* C22: an exception of a network call or a database operation never
\* leaves the handler, callback or job it was raised in: the handler catches
\* it, and only that handler run is abandoned.
C22_ExceptionsCaughtAtBoundary == results.fn # "raised"

\* C31: a created-event reminder whose fetch of the stored announcement
\* reports not found sets the posted ids to NULL and goes on to send; its
\* send posts a new message and stores that message as the reference.
C31_CreatedReminderRecovers ==
    [][ \A t \in BagToSet(tasks) :
          /\ (CreatedReminderFetch(t) /\ t.msg \notin LiveIds) =>
                /\ created_events'[t.ev].ch = Null
                /\ created_events'[t.ev].msg = Null
                /\ Running([t EXCEPT !.pc = "send"])'
          /\ CreatedReminderSend(t) =>
                /\ created_events'[t.ev].ch = CreatedEventsChannelId
                /\ created_events'[t.ev].msg = nextMsg
                /\ [id |-> nextMsg, ev |-> t.ev] \in live' \ live
      ]_vars

\* a created-event reminder found its announcement gone: the reference is
\* cleared and the reminder is about to send
C31_Witness ==
    \E t \in BagToSet(tasks) :
        /\ t.kind = "created_reminder" /\ t.pc = "send"
        /\ t.msg # Null /\ t.msg \notin LiveIds
        /\ created_events[t.ev].msg = Null

\* ------------------------------------------------------------------------
\* bot.py : on_ready and the recurring jobs
\* ------------------------------------------------------------------------
\* (now.month - 2) % 12 + 1
MonthsPerYear == 12

\* the days of a month, scaled down
MonthLen == 3

\* a job whose trigger has no fire time left
Never == -1

CronIds == {"weekly_poll", "quarterly_poll", "weekly_summary",
            "daily_summary_morning", "daily_summary_evening"}

\* today is the day whose trigger times are still ahead; day 0 is a Monday
\* and the first of January of year 0
MonthOf(d) == ((d \div MonthLen) % MonthsPerYear) + 1

CalendarYearOf(d) == d \div (MonthLen * MonthsPerYear)

FirstOfMonth(year, month) == (year * MonthsPerYear + month - 1) * MonthLen

\* CronTrigger(day_of_week=...), CronTrigger(day_of_week="*") and
\* CronTrigger(day=1, month=..., year=...)
WeeklyTrigger(dow) == [kind |-> "weekly", dow |-> dow, year |-> 0, month |-> 0]

DailyTrigger == [kind |-> "daily", dow |-> 0, year |-> 0, month |-> 0]

DateTriggerOf(year, month) == [kind |-> "date", dow |-> 0, year |-> year, month |-> month]

\* trigger.get_next_fire_time(None, now): the first fire time not before d
NextFireTime(trig, d) ==
    IF trig.kind = "daily" THEN d
    ELSE IF trig.kind = "weekly"
    THEN CHOOSE x \in d..(d + Week - 1) : x % Week = trig.dow
    ELSE IF FirstOfMonth(trig.year, trig.month) >= d
         THEN FirstOfMonth(trig.year, trig.month)
         ELSE Never

\* schedule_quarterly_post: the trigger it builds on day d
QuarterlyTrigger(d) ==
    LET prev_month == ((MonthOf(d) - 2) % MonthsPerYear) + 1
        year == IF MonthOf(d) > 1 THEN CalendarYearOf(d) ELSE CalendarYearOf(d) - 1
    IN  DateTriggerOf(year, prev_month)

\* scheduler.add_job(...) that keeps the jobs of the same id
AddJobKeeping(js, id, trig, d) ==
    js \cup {[id |-> id, trigger |-> trig, next |-> NextFireTime(trig, d)]}

\* scheduler.add_job(..., id=id, replace_existing=True)
AddJob(js, id, trig, d) ==
    {j \in js : j.id # id} \cup {[id |-> id, trigger |-> trig, next |-> NextFireTime(trig, d)]}

\* schedule_weekly_post, schedule_quarterly_post, schedule_weekly_summary
\* and schedule_daily_summary, in the order of on_ready
ScheduleAll(js, d) ==
    LET j1 == AddJob(js, "weekly_poll", WeeklyTrigger(6), d)
        j2 == AddJob(j1, "quarterly_poll", QuarterlyTrigger(d), d)
        j3 == AddJob(j2, "weekly_summary", WeeklyTrigger(0), d)
        j4 == AddJob(j3, "daily_summary_morning", DailyTrigger, d)
    IN  AddJob(j4, "daily_summary_evening", DailyTrigger, d)

\* on_ready: the first connect or a reconnect
OnReady ==
    /\ cron_jobs' = ScheduleAll(cron_jobs, today)
    /\ results' = [fn |-> "on_ready", val |-> {j.id : j \in cron_jobs}]
    /\ UNCHANGED <<evVars, pollVars, quarterVars, createdVars, digestVars, checkVars, msgVars>>

\* the jobs whose fire time is today
DueJobs == {j \in cron_jobs : j.next = today}

\* the trigger times of today pass: every due job runs once and gets its
\* next fire time
PassTriggerTimes ==
    /\ today < MaxDay
    /\ today' = today + 1
    /\ cron_jobs' = {IF j \in DueJobs
                     THEN [j EXCEPT !.next = NextFireTime(j.trigger, today + 1)]
                     ELSE j : j \in cron_jobs}
    /\ results' = [fn |-> "jobs_run", val |-> {j.id : j \in DueJobs}]
    /\ UNCHANGED <<quarter_polls, nextQuarterPollId>>
    /\ UNCHANGED <<evVars, pollVars, quarterVars, createdVars, digestVars, msgVars>>

\* the process is restarted: the job store is in memory
RestartScheduler ==
    /\ cron_jobs' = {}
    /\ results' = [fn |-> "restart", val |-> today]
    /\ UNCHANGED <<evVars, pollVars, quarterVars, createdVars, digestVars, checkVars, msgVars>>

NextSched ==
    \/ OnReady
    \/ PassTriggerTimes
    \/ RestartScheduler

SpecSched == Init /\ [][NextSched]_vars

\* C32: the quarterly job that schedule_quarterly_post registers has a fire
\* time that is still ahead on the day of the registration.
C32_QuarterlyJobHasFireTime ==
    \A j \in cron_jobs : j.id = "quarterly_poll" => j.next # Never

\* C39: after on_ready has run, however often, the job store holds exactly
\* one job of each of the five ids, and no id has two jobs due at one
\* trigger time.
C39_OneJobPerId ==
    /\ cron_jobs # {} =>
          \A id \in CronIds : Cardinality({j \in cron_jobs : j.id = id}) = 1
    /\ \A j \in cron_jobs : j.id \in CronIds
    /\ \A id \in CronIds : Cardinality({j \in DueJobs : j.id = id}) <= 1

\* on_ready ran again in a later month, with the five jobs in the store:
\* they were replaced, the weekly poll is due later this week
C39_Witness ==
    /\ results.fn = "on_ready"
    /\ results.val = CronIds
    /\ today >= MonthLen
    /\ \E j \in cron_jobs : j.id = "weekly_poll" /\ j.next > today

\* a 'deleted' notification for an event whose announcement was posted
OnDeleteAnnounced(e) ==
    /\ e \in DOMAIN tracked_events
    /\ tracked_events[e].msg # Null
    /\ OnDeleteStart(e)

\* an event is announced once, reminded of and deleted
NextLifecycle ==
    \/ \E e \in EventIds, d \in StartDeltas : OnCreateFirst(e, now + d)
    \/ CreateSteps
    \/ \E e \in EventIds : OnDeleteAnnounced(e)
    \/ DeleteSteps
    \/ ReminderSteps
    \/ Scheduler

SpecLifecycle == Init /\ [][NextLifecycle]_vars

\* C33: an event without a row of tracked_events has no pending reminder
\* job and no live announcement: reminders post only for tracked events.
C33_RemindersOnlyForTrackedEvents ==
    /\ \A k \in DOMAIN jobs : k[2] \in EventIds => k[2] \in DOMAIN tracked_events
    /\ \A m \in live : m.ev \in EventIds => m.ev \in DOMAIN tracked_events

\* an 'updated' notification that repeats the stored start time
OnUpdateSameStart(e) ==
    /\ e \in DOMAIN tracked_events
    /\ tracked_events[e].msg # Null
    /\ OnUpdateStart(e, tracked_events[e].start)

\* the reminder coroutines reschedule_all_events creates at once
RescheduledNow ==
    UNION {{Task("reminder", e, h, 0, Null, "start") :
               h \in ToRunNow(tracked_events[e].start, now)} : e \in DOMAIN tracked_events}

\* reschedule_all_events: schedule_reminders_for_event for every row
RescheduleAllEvents ==
    LET rows == DOMAIN tracked_events
        kept == {k \in DOMAIN jobs : k[2] \notin rows}
        added == UNION {{<<h, e>> : h \in ToSchedule(tracked_events[e].start, now)} : e \in rows}
    IN  /\ rows # {}
        /\ NumTasks + Cardinality(RescheduledNow) <= MaxTasks
        /\ jobs' = [k \in kept \cup added |->
                      IF k \in added THEN tracked_events[k[2]].start - k[1] ELSE jobs[k]]
        /\ tasks' = tasks (+) SetToBag(RescheduledNow)
        /\ UNCHANGED <<tracked_events, event_rsvps, live, nextMsg, now, chanUp>>
        /\ UNCHANGED <<pollVars, quarterVars, createdVars, digestVars, checkVars, schedVars, msgVars, results>>

\* one event, announced once; its start time never changes while update
\* notifications and calls of reschedule_all_events repeat the scheduling
NextSameStart ==
    \/ \E e \in EventIds, d \in StartDeltas : OnCreateFirst(e, now + d)
    \/ \E e \in EventIds : OnUpdateSameStart(e)
    \/ RescheduleAllEvents
    \/ CreateSteps
    \/ UpdateSteps
    \/ ReminderSteps
    \/ Scheduler

SpecSameStart == Init /\ [][NextSameStart]_vars

\* C34: with an unchanged start time each reminder of an event is posted at
\* most once: the messages sent for the event so far are its announcement
\* and one message for each reminder offset whose moment has come.
C34_RemindersPostedOnce ==
    \A e \in DOMAIN tracked_events :
        nextMsg - 1 <= 1 + Cardinality({h \in ReminderOffsets : tracked_events[e].start - h <= now})

\* PollButton.callback of a button that a poll message still shows after
\* its option was deleted (the message is edited only after the DELETEs,
\* best effort): option_id comes from the button, nothing looks the option up
PollButtonStale(p, oid, u) ==
    /\ p \in WeeklyPolls
    /\ oid < nextOptionId
    /\ \A o \in options : o.id # oid
    /\ votes' = ToggleVote(votes, p, oid, u)
    /\ UNCHANGED <<options, nextOptionId, availability, temp_selections>>
    /\ UNCHANGED <<evVars, quarterVars, createdVars, digestVars, checkVars, schedVars, msgVars>>
    /\ results' = Result(IF <<p, oid, u>> \in votes THEN "vote_removed" ELSE "vote_added",
                         generate_poll_embed_from_db(p)')

\* ideas are added, voted for and deleted by their authors; a vote button
\* may be pressed on a message that was not refreshed yet
NextStaleVote ==
    \/ \E p \in WeeklyPolls, u \in Clickers : SuggestModal(p, <<"a">>, u)
    \/ \E p \in WeeklyPolls, oid \in 1..MaxOptions, u \in Clickers : PollButton(p, oid, u)
    \/ \E p \in WeeklyPolls, oid \in 1..MaxOptions, u \in Clickers : PollButtonStale(p, oid, u)
    \/ \E p \in WeeklyPolls, oid \in 1..MaxOptions, u \in Clickers :
          DeleteOwnOption(p, oid, u, u)

SpecStaleVote == Init /\ [][NextStaleVote]_vars

\* C35: every vote row names an option that exists.
C35_VotesReferenceOptions ==
    \A v \in votes : \E o \in options : o.id = v[2]

\* WeekSelectButton.callback: the days the new view shows as selected are
\* the tentative set, or the persisted days when the tentative set is empty
WeekShown(p, u) ==
    IF TempOf(temp_selections, p, u) = {}
    THEN PersistedSlots(availability, p, u)
    ELSE TempOf(temp_selections, p, u)

\* WeekSelectButton.callback: show the days of the week, nothing is stored
WeekSelectButton(p, u) ==
    /\ p \in QuarterlyPolls
    /\ results' = Result("week_shown", WeekShown(p, u))
    /\ UNCHANGED <<evVars, pollVars, quarterVars, createdVars, digestVars, checkVars, schedVars, msgVars>>

\* one user picks days of one week of the quarterly poll while another
\* user fills in the weekly grid: when the last rendering is a view of the
\* quarterly flow, it is the view the first user looks at
NextDayPick ==
    \/ \E p \in QuarterlyPolls : WeekSelectButton(p, "u1")
    \/ \E p \in QuarterlyPolls, d \in QuarterlyDays : DayAvailButton(p, "u1", d)
    \/ \E p \in QuarterlyPolls : QuarterlySubmitButton(p, "u1")
    \/ \E p \in WeeklyPolls : OpenAvailabilityView(p, "u2")
    \/ \E p \in WeeklyPolls, sl \in WeeklySlots : HourButton(p, "u2", sl)
    \/ \E p \in WeeklyPolls : SubmitButton(p, "u2")

SpecDayPick == Init /\ [][NextDayPick]_vars

\* C36: the days Submit persists for a user are the days the view showed
\* that user as selected when Submit was pressed.
C36_SubmitPersistsShownDays ==
    [][ \A p \in QuarterlyPolls :
          (QuarterlySubmitButton(p, "u1") /\ results.fn \in {"week_shown", "day_staged"}) =>
              PersistedSlots(availability', p, "u1") = results.val
      ]_vars

\* ------------------------------------------------------------------------
\* bot.py : the poll messages of a channel
\* ------------------------------------------------------------------------
\* the title of the embed: generate_poll_embed_from_db writes "... Worauf
\* hast du diese Woche Lust?", the quarterly one "... Quartalsumfrage ..."
PollTitle(p) == IF p \in WeeklyPolls THEN "Worauf" ELSE "Quartalsumfrage"

\* post_poll_to_channel / post_quarterly_poll_to_channel: the record of the
\* poll and its message, which nothing deletes later
PostPoll(p) ==
    /\ \A i \in 1..Len(poll_messages) : poll_messages[i].poll # p
    /\ poll_messages' = Append(poll_messages, [poll |-> p, shows |-> p, title |-> PollTitle(p)])
    /\ results' = Result("poll_posted", RenderedPoll(p))
    /\ UNCHANGED <<evVars, pollVars, quarterVars, createdVars, digestVars, checkVars, schedVars>>

\* polls are posted to one channel, one after the other, and ideas are
\* added to and deleted from any poll that was posted
NextPollMessages ==
    \/ \E p \in PollIds : PostPoll(p)
    \/ \E p \in PollIds, u \in Clickers :
          /\ \E i \in 1..Len(poll_messages) : poll_messages[i].poll = p
          /\ SuggestModal(p, <<"a">>, u)
    \/ \E p \in PollIds, oid \in 1..MaxOptions, u \in Clickers :
          DeleteOwnOption(p, oid, u, u)
    \/ \E p \in WeeklyPolls, u \in Clickers : PollButton(p, 1, u)

SpecPollMessages == Init /\ [][NextPollMessages]_vars

\* C37: every posted poll message shows the poll it was posted for.
C37_MessagesShowTheirPoll ==
    \A i \in 1..Len(poll_messages) : poll_messages[i].shows = poll_messages[i].poll

\* the ids a row of quarter_polls can get within the calendar
QuarterPollRowIds == 1..(MaxDay \div QuarterLen + 1)

\* the daily check keeps running (the CronTrigger fires every day), the days
\* pass, and a _post coroutine that was created is run by the event loop
SpecCheckFair ==
    /\ Init
    /\ [][NextCheck]_vars
    /\ WF_vars(CheckAndPost)
    /\ WF_vars(NextDay)
    /\ \A id \in QuarterPollRowIds :
          WF_vars(PostSend(PostTask(id)) \/ PostNoChannel(PostTask(id)))

\* C38: every row of quarter_polls eventually has a posted message (or the
\* message ids of the model are used up).
C38_EveryRowGetsPosted ==
    \A id \in QuarterPollRowIds :
        [](  (\E r \in quarter_polls : r.id = id)
          => <>(\/ \E r \in quarter_polls : r.id = id /\ r.msg # Null
                \/ nextMsg > MaxMsgs))

====
